---- MODULE Spec2Model ----
(***************************************************************************)
(* Model of the hotel pricing server: the pricing engine of                *)
(* server/tools.py (EnhancedHotelAnalytics.calculate_optimal_pricing and   *)
(* its helpers) and the HTTP handlers of server/app.py (price_override,    *)
(* get_price_recommendation / get_ai_recommendation, health_check,         *)
(* manage_hotels).                                                         *)
(*                                                                         *)
(* Numbers.  Python floats are modelled by exact arithmetic:               *)
(*   - money in a response is an integer number of cents,                  *)
(*   - an occupancy in a response is an integer number of tenths of a      *)
(*     percent (round(x, 1)),                                              *)
(*   - a rational is a pair <<num, den>> with den > 0,                     *)
(*   - a confidence is an integer number of 1/10000 (fixed point; the      *)
(*     logarithm, the square root and the power of _calculate_confidence   *)
(*     are computed to that precision).                                    *)
(* Competitor prices and the price bounds of a hotel configuration are     *)
(* whole dollars.  round() is applied to the exact value: where that value *)
(* is exactly half-way between two results, the binary floats of the       *)
(* program may give the neighbouring result (one cent, one tenth of a      *)
(* percent).                                                               *)
(*                                                                         *)
(* A behaviour of Spec is one call: the arguments (and, for the HTTP       *)
(* handlers, what the handler finds outside the program) are drawn in the  *)
(* initial state, and the action of the operation computes the response.   *)
(* A behaviour of SpecServer is a run of the server: requests arrive one   *)
(* after the other and are served over the tables of the database.         *)
(***************************************************************************)
EXTENDS Integers, Sequences, FiniteSets, TLC

VARIABLES
    request,        \* the arguments of the last call
    response,       \* what the last call returned (or the error it ended in)
    price_history,  \* rows of table price_history (store_recommendation_data)
    hotel_configs   \* rows of table hotel_configs (manage_hotels)

vars == <<request, response, price_history, hotel_configs>>

---------------------------------------------------------------------------
(* Arithmetic helpers                                                      *)

Max(a, b) == IF a >= b THEN a ELSE b

Min(a, b) == IF a <= b THEN a ELSE b

Abs(a) == IF a < 0 THEN -a ELSE a

RECURSIVE GCD(_, _)
GCD(a, b) == IF b = 0 THEN a ELSE GCD(b, a % b)

RECURSIVE SumSeq(_)
SumSeq(s) == IF s = <<>> THEN 0 ELSE Head(s) + SumSeq(Tail(s))

RECURSIVE MaxSeq(_)
MaxSeq(s) == IF Len(s) = 1 THEN s[1] ELSE Max(Head(s), MaxSeq(Tail(s)))

RECURSIVE MinSeq(_)
MinSeq(s) == IF Len(s) = 1 THEN s[1] ELSE Min(Head(s), MinSeq(Tail(s)))

\* a * b = q * c + r with 0 <= r < c, for a, b >= 0 and c > 0, computed without
\* forming a * b (which may exceed 32-bit integers).
RECURSIVE MulDiv(_, _, _)
MulDiv(a, b, c) ==
    IF b = 0 THEN <<0, 0>>
    ELSE LET h == MulDiv(a, b \div 2, c)
             odd == b % 2 = 1
             r2 == 2 * h[2] + (IF odd THEN a % c ELSE 0)
         IN  <<2 * h[1] + (IF odd THEN a \div c ELSE 0) + r2 \div c, r2 % c>>

\* Python's round() to an integer of the mixed number q + r / c: half to even.
RoundHalfEven(qr, c) ==
    IF 2 * qr[2] > c \/ (2 * qr[2] = c /\ qr[1] % 2 = 1) THEN qr[1] + 1 ELSE qr[1]

\* Rationals <<num, den>>, den > 0, kept in lowest terms.
Reduce(x) ==
    LET g == GCD(Abs(x[1]), x[2]) IN <<x[1] \div g, x[2] \div g>>

RInt(n) == <<n, 1>>

RAdd(x, y) == Reduce(<<x[1] * y[2] + y[1] * x[2], x[2] * y[2]>>)

RSub(x, y) == Reduce(<<x[1] * y[2] - y[1] * x[2], x[2] * y[2]>>)

RMul(x, y) == Reduce(<<x[1] * y[1], x[2] * y[2]>>)

\* x / y for y > 0
RDiv(x, y) == Reduce(<<x[1] * y[2], x[2] * y[1]>>)

RLess(x, y) == x[1] * y[2] < y[1] * x[2]

RMin(x, y) == IF RLess(y, x) THEN y ELSE x

RMax(x, y) == IF RLess(x, y) THEN y ELSE x

\* Python's int(): truncation toward zero.
Trunc(x) == IF x[1] >= 0 THEN x[1] \div x[2] ELSE -((-x[1]) \div x[2])

\* floor
Floor(x) == x[1] \div x[2]

\* round(x * scale) for x >= 0: round(x, 1) is RRound(x, 10), round(x, 2) is
\* RRound(x, 100), f"{x:.0f}" is RRound(x, 1).
RRound(x, scale) ==
    RoundHalfEven(<<(x[1] * scale) \div x[2], (x[1] * scale) % x[2]>>, x[2])

---------------------------------------------------------------------------
(* Dates: datetime.strptime(date, "%Y-%m-%d"), weekday(), month, and the  *)
(* days of a difference of two datetimes.                                  *)

IsLeap(y) == (y % 4 = 0 /\ y % 100 # 0) \/ y % 400 = 0

DaysBeforeMonth(y, m) ==
    <<0, 31, 59, 90, 120, 151, 181, 212, 243, 273, 304, 334>>[m]
    + (IF m > 2 /\ IsLeap(y) THEN 1 ELSE 0)

\* date.toordinal(): 0001-01-01 is day 1
toordinal(d) ==
    LET y == d.year - 1
    IN  y * 365 + y \div 4 - y \div 100 + y \div 400
        + DaysBeforeMonth(d.year, d.month) + d.day

\* datetime.weekday(): Monday is 0
weekday(d) == (toordinal(d) + 6) % 7

\* (target_date - datetime.now()).days: the target is midnight of its day, so a
\* now later than midnight of its own day costs one more day (timedelta.days
\* is the floor).
DaysUntil(target_date, now) ==
    toordinal(target_date) - toordinal(now.date)
    - (IF now.midnight THEN 0 ELSE 1)

---------------------------------------------------------------------------
(* tools.py: EnhancedHotelAnalytics.calculate_optimal_pricing              *)

base_config ==
    [totalRooms |-> 100, baseOccupancy |-> 65, minPrice |-> 80, maxPrice |-> 500]

\* config = {**base_config, **hotel_config}
MergeConfig(hotel_config) ==
    [k \in DOMAIN base_config \cup DOMAIN hotel_config |->
        IF k \in DOMAIN hotel_config THEN hotel_config[k] ELSE base_config[k]]

\* [c.get('price', 0) for c in competitors if c.get('price', 0) > limit]
RECURSIVE PricesAbove(_, _)
PricesAbove(competitors, limit) ==
    IF competitors = <<>> THEN <<>>
    ELSE (IF Head(competitors).price > limit
          THEN <<Head(competitors).price>> ELSE <<>>)
         \o PricesAbove(Tail(competitors), limit)

\* Prices at or below this are left out of the competitor statistics
NoisePriceLimit == 50

competitor_prices(competitors) == PricesAbove(competitors, NoisePriceLimit)

\* sorted(prices): ascending
RECURSIVE Insert(_, _)
Insert(x, s) ==
    IF s = <<>> THEN <<x>>
    ELSE IF x < Head(s) THEN <<x>> \o s
    ELSE <<Head(s)>> \o Insert(x, Tail(s))

RECURSIVE sorted(_)
sorted(s) == IF s = <<>> THEN <<>> ELSE Insert(Head(s), sorted(Tail(s)))

\* competitor_stats: {} when no price is left, else min, max, avg, median
competitor_stats(prices) ==
    IF prices # <<>>
    THEN [present |-> TRUE,
          min |-> MinSeq(prices),
          max |-> MaxSeq(prices),
          avg |-> Reduce(<<SumSeq(prices), Len(prices)>>),
          median |-> sorted(prices)[Len(prices) \div 2 + 1]]
    ELSE [present |-> FALSE, min |-> 0, max |-> 0, avg |-> <<0, 1>>, median |-> 0]

\* Base price when no competitor price is left
DefaultBasePrice == 150

base_price(stats) ==
    IF stats.present THEN RMul(stats.avg, <<92, 100>>) ELSE RInt(DefaultBasePrice)

\* events = market_intel.get('market_events', [])
MarketEvents(market_intel) ==
    IF "market_events" \in DOMAIN market_intel THEN market_intel.market_events ELSE <<>>

RECURSIVE EventsWithImpact(_, _)
EventsWithImpact(events, impacts) ==
    IF events = <<>> THEN <<>>
    ELSE (IF Head(events).impact \in impacts THEN <<Head(events)>> ELSE <<>>)
         \o EventsWithImpact(Tail(events), impacts)

high_impact_events(events) == EventsWithImpact(events, {"high"})

medium_impact_events(events) == EventsWithImpact(events, {"medium"})

\* Variant of demand_multiplier that raises the price for a single high-impact
\* event only
demand_multiplier_single_high(events) ==
    IF Len(high_impact_events(events)) = 1 THEN <<135, 100>>
    ELSE IF medium_impact_events(events) # <<>> THEN <<115, 100>>
    ELSE <<100, 100>>

demand_multiplier(events) ==
    IF high_impact_events(events) # <<>> THEN <<135, 100>>
    ELSE IF medium_impact_events(events) # <<>> THEN <<115, 100>>
    ELSE <<100, 100>>

occupancy_boost(events) ==
    IF high_impact_events(events) # <<>> THEN 20
    ELSE IF medium_impact_events(events) # <<>> THEN 10
    ELSE 0

\* Variant of dow_multipliers that prices Saturday as Friday
dow_multipliers_flat_weekend(day_of_week) ==
    CASE day_of_week = 0 -> <<95, 100>>
      [] day_of_week = 1 -> <<98, 100>>
      [] day_of_week = 2 -> <<100, 100>>
      [] day_of_week = 3 -> <<105, 100>>
      [] day_of_week = 4 -> <<120, 100>>
      [] day_of_week = 5 -> <<120, 100>>
      [] day_of_week = 6 -> <<110, 100>>
      [] OTHER -> <<100, 100>>

\* dow_multipliers.get(day_of_week, 1.0)
dow_multipliers(day_of_week) ==
    CASE day_of_week = 0 -> <<95, 100>>
      [] day_of_week = 1 -> <<98, 100>>
      [] day_of_week = 2 -> <<100, 100>>
      [] day_of_week = 3 -> <<105, 100>>
      [] day_of_week = 4 -> <<120, 100>>
      [] day_of_week = 5 -> <<125, 100>>
      [] day_of_week = 6 -> <<110, 100>>
      [] OTHER -> <<100, 100>>

\* "Canada" in location: a location is the sequence of its words
InLocation(word, location) == \E i \in 1..Len(location) : location[i] = word

_get_seasonal_multiplier(date, location) ==
    IF InLocation("Canada", location)
    THEN IF date.month \in {6, 7, 8} THEN <<120, 100>>
         ELSE IF date.month \in {12, 1} THEN <<115, 100>>
         ELSE IF date.month \in {3, 4} THEN <<110, 100>>
         ELSE IF date.month \in {2, 11} THEN <<85, 100>>
         ELSE <<100, 100>>
    ELSE IF date.month \in {6, 7, 8, 12} THEN <<115, 100>>
         ELSE IF date.month \in {1, 2} THEN <<90, 100>>
         ELSE <<100, 100>>

lead_time_multiplier(lead_time, events) ==
    IF lead_time < 7 /\ high_impact_events(events) # <<>> THEN <<110, 100>>
    ELSE IF lead_time > 60 THEN <<95, 100>>
    ELSE <<100, 100>>

\* calculated_price = base_price * demand_multiplier * dow * seasonal * lead, in
\* cents, as the mixed number q + r / c
calculated_price(base, dm, dow, seasonal, lead) ==
    LET mult == RMul(RMul(RMul(dm, dow), seasonal), lead)
        c == base[2] * mult[2]
        qr == MulDiv(mult[1], 100 * base[1], c)
    IN  [q |-> qr[1], r |-> qr[2], c |-> c]

\* Variant of ClampPrice that applies the floor only: max(minPrice, price)
ClampPriceNoCeiling(min_price, max_price, calc) ==
    LET lo == 100 * min_price
    IN  IF calc.q > lo \/ (calc.q = lo /\ calc.r > 0)
        THEN calc ELSE [q |-> lo, r |-> 0, c |-> 1]

\* max(config['minPrice'], min(config['maxPrice'], calculated_price)), in cents
ClampPrice(min_price, max_price, calc) ==
    LET lo == 100 * min_price
        hi == 100 * max_price
        inner == IF calc.q < hi THEN calc ELSE [q |-> hi, r |-> 0, c |-> 1]
    IN  IF inner.q > lo \/ (inner.q = lo /\ inner.r > 0)
        THEN inner ELSE [q |-> lo, r |-> 0, c |-> 1]

\* round(recommended_price, 2), in cents
recommended_price(config, calc) ==
    LET clamped == ClampPrice(config.minPrice, config.maxPrice, calc)
    IN  RoundHalfEven(<<clamped.q, clamped.r>>, clamped.c)

\* Bounds of the projected occupancy, in percent
OccupancyCeiling == 95

OccupancyFloor == 30

\* Variant of projected_occupancy without the two min(95, ...)
projected_occupancy_uncapped(config, events, stats, price_cents) ==
    LET boosted == RInt(config.baseOccupancy + occupancy_boost(events))
    IN  IF stats.present /\ stats.avg[1] # 0
        THEN LET price_ratio == RDiv(<<price_cents, 100>>, stats.avg)
                 elasticity_adjustment == RMul(RSub(RInt(1), price_ratio), RInt(25))
             IN  RMax(RInt(OccupancyFloor), RAdd(boosted, elasticity_adjustment))
        ELSE boosted

\* the projected occupancy before it is rounded for the result, a rational
projected_occupancy(config, events, stats, price_cents) ==
    LET boosted == RInt(Min(OccupancyCeiling, config.baseOccupancy + occupancy_boost(events)))
    IN  IF stats.present /\ stats.avg[1] # 0
        THEN LET price_ratio == RDiv(<<price_cents, 100>>, stats.avg)
                 elasticity_adjustment == RMul(RSub(RInt(1), price_ratio), RInt(25))
             IN  RMin(RInt(OccupancyCeiling),
                      RMax(RInt(OccupancyFloor), RAdd(boosted, elasticity_adjustment)))
        ELSE boosted

\* rooms_sold = int(total_rooms * (projected_occupancy / 100))
rooms_sold(total_rooms, occupancy) ==
    Trunc(RMul(RInt(total_rooms), RDiv(occupancy, RInt(100))))

\* round(adr * (projected_occupancy / 100), 2), in cents, for a price in cents
revpar(price_cents, occupancy) ==
    RoundHalfEven(MulDiv(price_cents, occupancy[1], 100 * occupancy[2]),
                  100 * occupancy[2])

---------------------------------------------------------------------------
(* tools.py: EnhancedHotelAnalytics._calculate_confidence, in 1/10000      *)

\* floor of the square root, by bisection: lo * lo <= n < hi * hi
RECURSIVE ISqrtBetween(_, _, _)
ISqrtBetween(n, lo, hi) ==
    IF hi - lo <= 1 THEN lo
    ELSE LET mid == (lo + hi) \div 2
         IN  IF mid * mid <= n THEN ISqrtBetween(n, mid, hi)
             ELSE ISqrtBetween(n, lo, mid)

ISqrt(n) == ISqrtBetween(n, 0, 46340)

\* the distinct values of comp.get('source', 'Unknown')
scraped_sources(competitors) ==
    {competitors[i].source : i \in 1..Len(competitors)}

max_possible_sources == 7

source_confidence(competitors) ==
    Min(9500, 5000 + (Cardinality(scraped_sources(competitors)) * 4500)
                     \div max_possible_sources)

\* math.log(n + 1) / math.log(20) for n = 1..19, in 1/10000; 1 or more beyond
log_factor(n) ==
    IF n >= 19 THEN 10000
    ELSE <<2314, 3667, 4628, 5372, 5981, 6496, 6941, 7335, 7686, 8004,
           8295, 8562, 8809, 9040, 9255, 9457, 9648, 9829>>[n]

sample_confidence(competitors) ==
    IF Len(competitors) > 0
    THEN Min(9500, 3500 + (5000 * Min(10000, log_factor(Len(competitors)))) \div 10000)
    ELSE 2500

RECURSIVE SumSquares(_)
SumSquares(s) == IF s = <<>> THEN 0 ELSE Head(s) * Head(s) + SumSquares(Tail(s))

\* std_dev / avg_price of the prices (population standard deviation), in 1/10000
coefficient_of_variation(prices) ==
    LET n == Len(prices)
        total == SumSeq(prices)
        x == n * SumSquares(prices) - total * total
    IN  ISqrt(MulDiv(100000000, x, total * total)[1])

price_confidence(competitors) ==
    IF competitors # <<>>
    THEN LET prices == PricesAbove(competitors, 0)
         IN  IF Len(prices) >= 2
             THEN LET cv == coefficient_of_variation(prices)
                      d == Abs(3000 - cv)
                  IN  IF 1500 <= cv /\ cv <= 6000
                      THEN Min(9000, 7500 + (1500 * (3000 - d)) \div 3000)
                      ELSE IF 500 <= cv /\ cv <= 8000
                      THEN Min(8000, 6000 + (2000 * (5000 - d)) \div 5000)
                      ELSE 4500
             ELSE 3000
    ELSE 2000

\* 0.85 ** w for a whole number of weeks w, in 1/10000
RECURSIVE PowWeeks(_)
PowWeeks(w) == IF w = 0 THEN 10000 ELSE (PowWeeks(w - 1) * 85) \div 100

\* 0.95 * (0.85 ** (days_ago / 7)) with days_ago = abs(lead_time)
freshness_confidence(lead_time) ==
    LET days_ago == Abs(lead_time)
        part == <<10000, 9771, 9546, 9327, 9113, 8904, 8700>>[(days_ago % 7) + 1]
    IN  (((PowWeeks(days_ago \div 7) * part) \div 10000) * 95) \div 100

\* the event sources s of the model with 'Tavily' in s
TavilySources == {"Tavily", "Tavily Search"}

RECURSIVE CountLive(_)
CountLive(events) ==
    IF events = <<>> THEN 0
    ELSE (IF Head(events).source \in TavilySources THEN 1 ELSE 0)
         + CountLive(Tail(events))

event_confidence(events) ==
    IF events # <<>>
    THEN LET live_events == CountLive(events)
             total_events == Len(events)
         IN  6000 + Min(3500, live_events * 2500 + (total_events - live_events) * 1000)
    ELSE 5500

\* source_prices[source]: the prices > 0 of one source, in order
RECURSIVE PricesOfSource(_, _)
PricesOfSource(competitors, source) ==
    IF competitors = <<>> THEN <<>>
    ELSE (IF Head(competitors).source = source /\ Head(competitors).price > 0
          THEN <<Head(competitors).price>> ELSE <<>>)
         \o PricesOfSource(Tail(competitors), source)

RECURSIVE RSumOver(_, _, _)
RSumOver(S, competitors, overall) ==
    IF S = {} THEN <<0, 1>>
    ELSE LET s == CHOOSE t \in S : TRUE
             ps == PricesOfSource(competitors, s)
             avg == Reduce(<<SumSeq(ps), Len(ps)>>)
             term == IF overall[1] < 0 THEN avg
                     ELSE IF RLess(avg, overall) THEN RSub(overall, avg)
                     ELSE RSub(avg, overall)
         IN  RAdd(term, RSumOver(S \ {s}, competitors, overall))

consistency_confidence(competitors) ==
    LET sources == scraped_sources(competitors)
    IN  IF Cardinality(sources) >= 2 /\ Len(competitors) >= 3
        THEN LET priced == {s \in sources : PricesOfSource(competitors, s) # <<>>}
                 k == Cardinality(priced)
             IN  IF k >= 2
                 THEN LET overall_avg == RDiv(RSumOver(priced, competitors, <<-1, 1>>), RInt(k))
                          source_deviation ==
                              RDiv(RSumOver(priced, competitors, overall_avg), RInt(k))
                          source_cv == RDiv(source_deviation, overall_avg)
                      IN  Max(5000, 9500 - Floor(RMul(RInt(20000), source_cv)))
                 ELSE 7000
        ELSE 6000

\* weights = [1.5, 1.2, 1.3, 1.0, 1.1, 1.4], in tenths
weights == <<15, 12, 13, 10, 11, 14>>

\* sum(factor * weight) / sum(weights)
weighted_confidence(competitors, events, lead_time) ==
    (source_confidence(competitors) * weights[1]
     + sample_confidence(competitors) * weights[2]
     + price_confidence(competitors) * weights[3]
     + freshness_confidence(lead_time) * weights[4]
     + event_confidence(events) * weights[5]
     + consistency_confidence(competitors) * weights[6]) \div SumSeq(weights)

\* Variant of ClampConfidence without the floor: min(0.98, weighted_confidence)
ClampConfidenceNoFloor(weighted) == Min(9800, weighted)

\* final_confidence = max(0.45, min(0.98, weighted_confidence))
ClampConfidence(weighted) == Max(4500, Min(9800, weighted))

_calculate_confidence(competitors, events, lead_time) ==
    ClampConfidence(weighted_confidence(competitors, events, lead_time))

---------------------------------------------------------------------------
(* tools.py: EnhancedHotelAnalytics._generate_pricing_reasoning: the       *)
(* clauses of the reasoning, in the order they are joined by "; "          *)

Clause(text, count, avg) == [clause |-> text, count |-> count, avg |-> avg]

RECURSIVE AllPrices(_)
AllPrices(competitors) ==
    IF competitors = <<>> THEN <<>>
    ELSE <<Head(competitors).price>> \o AllPrices(Tail(competitors))

\* Variant of _generate_pricing_reasoning that gives the weekend clause before
\* the demand clause and ends every reasoning with the generic sentence
_generate_pricing_reasoning_reordered(competitors, events, day_of_week, seasonal_mult, demand_mult) ==
    (IF competitors # <<>>
     THEN <<Clause("Positioned competitively vs competitors", Len(competitors),
                   RRound(<<SumSeq(AllPrices(competitors)), Len(competitors)>>, 1))>>
     ELSE <<>>)
    \o (IF day_of_week \in {4, 5, 6}
        THEN <<Clause("Weekend premium applied", 0, 0)>> ELSE <<>>)
    \o (IF RLess(<<120, 100>>, demand_mult)
        THEN <<Clause("High-impact events driving premium pricing", 0, 0)>>
        ELSE IF RLess(<<105, 100>>, demand_mult)
        THEN <<Clause("Market events supporting rate increase", 0, 0)>>
        ELSE <<>>)
    \o (IF RLess(<<110, 100>>, seasonal_mult)
        THEN <<Clause("Peak season pricing in effect", 0, 0)>>
        ELSE IF RLess(seasonal_mult, <<95, 100>>)
        THEN <<Clause("Off-season discount applied", 0, 0)>>
        ELSE <<>>)
    \o <<Clause("Based on market analysis and demand patterns", 0, 0)>>

_generate_pricing_reasoning(competitors, events, day_of_week, seasonal_mult, demand_mult) ==
    LET reasons ==
            (IF competitors # <<>>
             THEN <<Clause("Positioned competitively vs competitors", Len(competitors),
                           RRound(<<SumSeq(AllPrices(competitors)), Len(competitors)>>, 1))>>
             ELSE <<>>)
            \o (IF RLess(<<120, 100>>, demand_mult)
                THEN <<Clause("High-impact events driving premium pricing", 0, 0)>>
                ELSE IF RLess(<<105, 100>>, demand_mult)
                THEN <<Clause("Market events supporting rate increase", 0, 0)>>
                ELSE <<>>)
            \o (IF day_of_week \in {4, 5, 6}
                THEN <<Clause("Weekend premium applied", 0, 0)>> ELSE <<>>)
            \o (IF RLess(<<110, 100>>, seasonal_mult)
                THEN <<Clause("Peak season pricing in effect", 0, 0)>>
                ELSE IF RLess(seasonal_mult, <<95, 100>>)
                THEN <<Clause("Off-season discount applied", 0, 0)>>
                ELSE <<>>)
    IN  IF reasons = <<>>
        THEN <<Clause("Based on market analysis and demand patterns", 0, 0)>>
        ELSE reasons

---------------------------------------------------------------------------
(* tools.py: the result of calculate_optimal_pricing.  `now` is the value  *)
(* of datetime.now() the call reads.                                       *)

RECURSIVE EventNames(_)
EventNames(events) ==
    IF events = <<>> THEN <<>> ELSE <<Head(events).name>> \o EventNames(Tail(events))

\* Variant of market_position that ignores the competitor statistics
market_position_competitive(stats) == "competitive"

market_position(stats) == IF stats.present THEN "competitive" ELSE "market_rate"

calculate_optimal_pricing(location, date, hotel_config, competitors, market_intel, now) ==
    LET config == MergeConfig(hotel_config)
        stats == competitor_stats(competitor_prices(competitors))
        events == MarketEvents(market_intel)
        dm == demand_multiplier(events)
        day_of_week == weekday(date)
        seasonal == _get_seasonal_multiplier(date, location)
        lead_time == DaysUntil(date, now)
        calc == calculated_price(base_price(stats), dm, dow_multipliers(day_of_week),
                                 seasonal, lead_time_multiplier(lead_time, events))
        price == recommended_price(config, calc)
        occupancy == projected_occupancy(config, events, stats, price)
        sold == rooms_sold(config.totalRooms, occupancy)
    IN  [recommended_price |-> price,
         projected_occupancy |-> RRound(occupancy, 10),
         confidence_score |-> _calculate_confidence(competitors, events, lead_time),
         reasoning |-> _generate_pricing_reasoning(competitors, events, day_of_week,
                                                   seasonal, dm),
         market_position |-> market_position(stats),
         competitor_analysis |->
             [count |-> Len(competitors),
              avg_price |-> IF stats.present THEN RRound(stats.avg, 100) ELSE 0,
              price_range |-> IF stats.present THEN <<stats.min, stats.max>> ELSE <<>>],
         demand_drivers |-> EventNames(EventsWithImpact(events, {"high", "medium"})),
         kpis |-> [adr |-> price,
                   revpar |-> revpar(price, occupancy),
                   projected_revenue |-> sold * price,
                   rooms_sold |-> sold]]

---------------------------------------------------------------------------
(* app.py: price_override, POST /api/price-override                        *)

\* dict.get(key, default)
Get(rec, key, default) == IF key \in DOMAIN rec THEN rec[key] ELSE default

EmptyConfig == [k \in {} |-> 0]

\* sorted(..., reverse=True) of the prices
RECURSIVE Reverse(_)
Reverse(s) == IF s = <<>> THEN <<>> ELSE Reverse(Tail(s)) \o <<Head(s)>>

\* s[i] of a Python list is defined for -len(s) <= i < len(s)
IndexOk(s, i) == -Len(s) <= i /\ i < Len(s)

PyIndex(s, i) == IF i >= 0 THEN s[i + 1] ELSE s[Len(s) + i + 1]

\* Variant of target_price that prices a rank below the last competitor over
\* the lowest price instead of under it
target_price_over_lowest(sorted_prices, desired_rank) ==
    IF desired_rank <= Len(sorted_prices)
    THEN IF desired_rank = 1
         THEN RMul(RInt(PyIndex(sorted_prices, 0)), <<105, 100>>)
         ELSE RDiv(RInt(PyIndex(sorted_prices, desired_rank - 2)
                        + PyIndex(sorted_prices, desired_rank - 1)), RInt(2))
    ELSE RMul(RInt(PyIndex(sorted_prices, -1)), <<105, 100>>)

\* the target price before the min/max constraints, in dollars; the list is
\* sorted by price, descending
target_price(sorted_prices, desired_rank) ==
    IF desired_rank <= Len(sorted_prices)
    THEN IF desired_rank = 1
         THEN RMul(RInt(PyIndex(sorted_prices, 0)), <<105, 100>>)
         ELSE RDiv(RInt(PyIndex(sorted_prices, desired_rank - 2)
                        + PyIndex(sorted_prices, desired_rank - 1)), RInt(2))
    ELSE RMul(RInt(PyIndex(sorted_prices, -1)), <<95, 100>>)

\* the list indices target_price reads
TargetIndices(sorted_prices, desired_rank) ==
    IF desired_rank <= Len(sorted_prices)
    THEN IF desired_rank = 1 THEN {0} ELSE {desired_rank - 2, desired_rank - 1}
    ELSE {-1}

\* max(min_price, min(max_price, target_price))
ClampTarget(min_price, max_price, target) ==
    RMax(RInt(min_price), RMin(RInt(max_price), target))

occupancy_adjustment(price_ratio) ==
    IF RLess(<<11, 10>>, price_ratio) THEN <<9, 10>>
    ELSE IF RLess(price_ratio, <<9, 10>>) THEN <<11, 10>>
    ELSE <<1, 1>>

positioning(price_ratio) ==
    IF RLess(<<11, 10>>, price_ratio) THEN "premium"
    ELSE IF RLess(price_ratio, <<9, 10>>) THEN "value"
    ELSE "competitive"

\* projected_occupancy = min(95, base_occupancy * occupancy_adjustment)
override_occupancy(base_occupancy, adjustment) ==
    RMin(RInt(95), RMul(RInt(base_occupancy), adjustment))

\* Variant of NoCompetitorResponse that answers with a default price
DefaultPriceResponse ==
    [status |-> 200, success |-> TRUE, override_price |-> 15000, market_rank |-> 1,
     kpis |-> [projected_occupancy |-> 650, adr |-> 15000, revpar |-> 9750,
               projected_revenue |-> 975000, rooms_sold |-> 65],
     positioning |-> "competitive"]

NoCompetitorResponse ==
    [status |-> 400, success |-> FALSE, error |-> "No competitor data available"]

\* except Exception as e: ... {"success": False, "error": str(e)}, 500
InternalError(e) == [status |-> 500, success |-> FALSE, error |-> e]

price_override(data) ==
    LET desired_rank == Get(data, "desiredRank", 1)
        competitors == Get(data, "competitors", <<>>)
        hotel_config == Get(data, "hotelConfig", EmptyConfig)
    IN  IF competitors = <<>> THEN NoCompetitorResponse
        ELSE
        LET prices == AllPrices(competitors)
            sorted_prices == Reverse(sorted(prices))
        IN  IF \E i \in TargetIndices(sorted_prices, desired_rank) : ~IndexOk(sorted_prices, i)
            THEN InternalError("list index out of range")
            ELSE IF SumSeq(prices) = 0 THEN InternalError("division by zero")
            ELSE
            LET target == ClampTarget(Get(hotel_config, "minPrice", 80),
                                      Get(hotel_config, "maxPrice", 500),
                                      target_price(sorted_prices, desired_rank))
                base_occupancy == Get(hotel_config, "baseOccupancy", 65)
                total_rooms == Get(hotel_config, "totalRooms", 100)
                avg_competitor_price == Reduce(<<SumSeq(prices), Len(prices)>>)
                price_ratio == RDiv(target, avg_competitor_price)
                occupancy == override_occupancy(base_occupancy,
                                                occupancy_adjustment(price_ratio))
                sold == rooms_sold(total_rooms, occupancy)
            IN  [status |-> 200,
                 success |-> TRUE,
                 override_price |-> RRound(target, 100),
                 market_rank |-> desired_rank,
                 kpis |-> [projected_occupancy |-> RRound(occupancy, 10),
                           adr |-> RRound(target, 100),
                           revpar |-> RRound(RMul(target, RDiv(occupancy, RInt(100))), 100),
                           projected_revenue |-> RRound(RMul(RInt(sold), target), 100),
                           rooms_sold |-> sold],
                 positioning |-> positioning(price_ratio)]

---------------------------------------------------------------------------
(* app.py: POST /api/price-recommendation                                  *)
(* A date is the record of the fields of its "YYYY-MM-DD" string.          *)

\* "mm-" in date: the month field, or the last two digits of the year
HasMonthText(date, m) == date.month = m \/ date.year % 100 = m

\* "mm-dd" in date
HasDayText(date, m, d) ==
    (date.month = m /\ date.day = d) \/ (date.year % 100 = m /\ date.month = d)

is_holiday_season(date) == HasMonthText(date, 12) \/ HasMonthText(date, 1)

\* city.lower() and name.lower(), on the cities and the event names of the requests
lower(city) ==
    CASE city = "Toronto" -> "toronto"
      [] city = "San Francisco" -> "san francisco"
      [] city = "Austin" -> "austin"
      [] city \in {"Jazz Festival", "JAZZ FESTIVAL"} -> "jazz festival"
      [] city = "Expo" -> "expo"
      [] city = "Parade" -> "parade"
      [] city = "Marathon" -> "marathon"
      [] city = "Film Week" -> "film week"
      [] city = "Book Fair" -> "book fair"
      [] OTHER -> city

MajorCities ==
    {"san francisco", "new york", "los angeles", "chicago", "toronto", "vancouver"}

is_major_city(city) == lower(city) \in MajorCities

\* rec[key] = value on a dict
Put(rec, key, value) ==
    [k \in DOMAIN rec \cup {key} |-> IF k = key THEN value ELSE rec[k]]

\* one entry of hotel_chains; the multiplier is in tenths
Chain(text, city, stars, multiplier) ==
    [name |-> <<text, city>>, stars |-> stars, multiplier |-> multiplier]

SanFranciscoChains ==
    <<Chain("Four Seasons Hotel San Francisco", "san francisco", 5, 28),
      Chain("The St. Regis San Francisco", "san francisco", 5, 26),
      Chain("The Ritz-Carlton, San Francisco", "san francisco", 5, 27),
      Chain("W San Francisco", "san francisco", 4, 19),
      Chain("Park Hyatt San Francisco", "san francisco", 5, 24),
      Chain("Grand Hyatt San Francisco", "san francisco", 4, 17),
      Chain("Hilton San Francisco Union Square", "san francisco", 4, 15),
      Chain("San Francisco Marriott Marquis", "san francisco", 4, 16),
      Chain("InterContinental San Francisco", "san francisco", 4, 18),
      Chain("The Westin St. Francis", "san francisco", 4, 17),
      Chain("Hyatt Regency San Francisco", "san francisco", 4, 14),
      Chain("Courtyard by Marriott San Francisco Downtown", "san francisco", 3, 12),
      Chain("Hampton Inn & Suites San Francisco", "san francisco", 3, 9),
      Chain("Holiday Inn Express San Francisco", "san francisco", 3, 8),
      Chain("Hotel Nikko San Francisco", "san francisco", 4, 16)>>

NewYorkChains ==
    <<Chain("The St. Regis New York", "new york", 5, 32),
      Chain("The Ritz-Carlton New York", "new york", 5, 30),
      Chain("The Plaza Hotel", "new york", 5, 35),
      Chain("W New York - Times Square", "new york", 4, 21),
      Chain("Park Hyatt New York", "new york", 5, 28),
      Chain("Grand Hyatt New York", "new york", 4, 18),
      Chain("New York Hilton Midtown", "new york", 4, 16),
      Chain("New York Marriott Marquis", "new york", 4, 17),
      Chain("InterContinental New York Barclay", "new york", 4, 19),
      Chain("The Westin New York", "new york", 4, 18),
      Chain("Hyatt Grand Central New York", "new york", 4, 15),
      Chain("Courtyard by Marriott New York Manhattan", "new york", 3, 13),
      Chain("Hampton Inn Manhattan-Times Square", "new york", 3, 10),
      Chain("Holiday Inn Express Manhattan", "new york", 3, 9),
      Chain("Pod Hotels Times Square", "new york", 3, 7)>>

TorontoChains ==
    <<Chain("Four Seasons Hotel Toronto", "toronto", 5, 25),
      Chain("The St. Regis Toronto", "toronto", 5, 23),
      Chain("The Ritz-Carlton, Toronto", "toronto", 5, 24),
      Chain("W Toronto", "toronto", 4, 18),
      Chain("Park Hyatt Toronto", "toronto", 5, 22),
      Chain("Grand Hotel & Suites Toronto", "toronto", 4, 15),
      Chain("Hilton Toronto", "toronto", 4, 14),
      Chain("Toronto Marriott City Centre", "toronto", 4, 15),
      Chain("InterContinental Toronto Centre", "toronto", 4, 17),
      Chain("The Westin Harbour Castle", "toronto", 4, 16),
      Chain("Hyatt Regency Toronto", "toronto", 4, 14),
      Chain("Courtyard by Marriott Toronto Downtown", "toronto", 3, 11),
      Chain("Hampton Inn & Suites Toronto", "toronto", 3, 8),
      Chain("Holiday Inn Express Toronto", "toronto", 3, 9),
      Chain("The Drake Hotel", "toronto", 3, 12)>>

\* the f-string names of the generic template keep their placeholder; the
\* city is the second component of the name
GenericChains(city) ==
    <<Chain("Four Seasons Hotel {city}", city, 5, 25),
      Chain("The St. Regis {city}", city, 5, 23),
      Chain("The Ritz-Carlton {city}", city, 5, 24),
      Chain("W {city}", city, 4, 18),
      Chain("Park Hyatt {city}", city, 5, 22),
      Chain("Grand Hyatt {city}", city, 4, 16),
      Chain("Hilton {city}", city, 4, 14),
      Chain("{city} Marriott", city, 4, 15),
      Chain("InterContinental {city}", city, 4, 17),
      Chain("The Westin {city}", city, 4, 16),
      Chain("Hyatt Regency {city}", city, 4, 14),
      Chain("Courtyard by Marriott {city}", city, 3, 11),
      Chain("Hampton Inn & Suites {city}", city, 3, 8),
      Chain("Holiday Inn Express {city}", city, 3, 9),
      Chain("Boutique Hotel {city}", city, 3, 12)>>

hotel_chains(city) ==
    CASE lower(city) = "san francisco" -> SanFranciscoChains
      [] lower(city) = "new york" -> NewYorkChains
      [] lower(city) = "toronto" -> TorontoChains
      [] OTHER -> GenericChains(city)

\* round(base_price * multiplier * (0.85 + (hash(name) % 100) / 100 * 0.3), 2)
\* in cents; hash is the string hash of the running interpreter, an input
EnhancedPrice(base_cents, multiplier, hash_value) ==
    RoundHalfEven(MulDiv(base_cents * multiplier, 850 + 3 * (hash_value % 100), 10000),
                  10000)

\* replaces result['competitors'] by the priced hotel_chains of the city
enhance_competitor_data(result, city, hash) ==
    LET enhance_base == Get(result, "recommended_price", 15000)
        chains == hotel_chains(city)
        enhanced_competitors ==
            [i \in 1..Len(chains) |->
                [name |-> chains[i].name,
                 price |-> EnhancedPrice(enhance_base, chains[i].multiplier, hash[i]),
                 stars |-> chains[i].stars]]
    IN  Put(result, "competitors", enhanced_competitors)

HolidayEvent(name, impact) == [name |-> name, impact |-> impact, type |-> "holiday"]

\* replaces result['market_events'] by the generated events
enhance_market_events(result, city, date, holiday) ==
    LET events ==
            (IF holiday /\ HasDayText(date, 12, 24)
             THEN <<HolidayEvent("Christmas Eve", "high")>> ELSE <<>>)
            \o (IF holiday /\ HasDayText(date, 12, 31)
                THEN <<HolidayEvent("New Year's Eve", "high")>> ELSE <<>>)
            \o (IF holiday /\ HasMonthText(date, 12)
                THEN <<HolidayEvent("Holiday Shopping Season", "medium")>> ELSE <<>>)
            \o (IF lower(city) = "san francisco"
                THEN <<[name |-> "Tech Conference Season", impact |-> "medium",
                        type |-> "conference"],
                       [name |-> "Winter Tourism Peak", impact |-> "medium",
                        type |-> "tourism"]>>
                ELSE <<>>)
    IN  Put(result, "market_events", events)

\* (name, multiplier in tenths, stars) of create_fallback_data
hotel_types ==
    <<<<"Four Seasons", 25, 5>>, <<"St. Regis", 23, 5>>, <<"Ritz-Carlton", 24, 5>>,
      <<"W Hotel", 18, 4>>, <<"Grand Hyatt", 16, 4>>, <<"Hilton", 14, 4>>,
      <<"Marriott", 15, 4>>, <<"InterContinental", 17, 4>>, <<"Courtyard", 11, 3>>,
      <<"Hampton Inn", 8, 3>>, <<"Holiday Inn", 9, 3>>, <<"Boutique Hotel", 12, 3>>>>

\* round(base_price * multiplier * (0.9 + 0.2 * hash(...) % 10 / 10), 2) in
\* cents: 0.2 * h % 10 is 0.2 * (h % 50)
FallbackPrice(base_cents, multiplier, hash_value) ==
    LET x == base_cents * multiplier * (90 + 2 * (hash_value % 50))
    IN  RoundHalfEven(<<x \div 1000, x % 1000>>, 1000)

\* the number of parameters of the definition of create_fallback_data that is
\* bound to the name when the handlers run: the module defines the function
\* twice and the second definition replaces the first
FallbackParameters == 6

\* base_price of create_fallback_data, in dollars
FallbackBasePrice(holiday, major) ==
    IF holiday
    THEN <<(IF major THEN 180 ELSE 120) * 14, 10>>
    ELSE RInt(IF major THEN 180 ELSE 120)

\* base_occupancy of create_fallback_data
FallbackOccupancy(hotel_config, holiday) ==
    IF holiday
    THEN RMin(RInt(95), RMul(RInt(Get(hotel_config, "baseOccupancy", 65)), <<13, 10>>))
    ELSE RInt(Get(hotel_config, "baseOccupancy", 65))

FallbackCompetitors(city, base_cents, hash) ==
    [i \in 1..Len(hotel_types) |->
        [name |-> <<hotel_types[i][1], city>>,
         price |-> FallbackPrice(base_cents, hotel_types[i][2], hash[i]),
         location |-> IF hotel_types[i][2] > 15 THEN "Downtown" ELSE "City Center",
         stars |-> hotel_types[i][3]]]

FallbackEvents(city, date, holiday, major) ==
    (IF holiday /\ HasDayText(date, 12, 24)
     THEN <<HolidayEvent("Christmas Eve", "high")>> ELSE <<>>)
    \o (IF holiday
        THEN <<HolidayEvent("Holiday Season",
                   IF HasDayText(date, 12, 24) \/ HasDayText(date, 12, 31)
                   THEN "high" ELSE "medium")>>
        ELSE <<>>)
    \o (IF major
        THEN <<[name |-> <<"Winter Events", city>>, impact |-> "medium",
                type |-> "tourism"]>>
        ELSE <<>>)

\* the dict create_fallback_data returns, from the values it computed
FallbackData(city, date, holiday, major, price, cents, occupancy, sold, hash) ==
    [recommended_price |-> cents,
     confidence |-> 85,
     competitors |-> FallbackCompetitors(city, cents, hash),
     market_events |-> FallbackEvents(city, date, holiday, major),
     kpis |-> [projected_occupancy |-> RRound(occupancy, 10),
               adr |-> cents,
               revpar |-> RRound(RMul(price, RDiv(occupancy, RInt(100))), 100),
               projected_revenue |-> RRound(RMul(RInt(sold), price), 100),
               rooms_sold |-> sold],
     demand_level |-> IF holiday THEN "high" ELSE "medium",
     market_position |-> "competitive",
     pricing_strategy |-> IF holiday THEN "surge" ELSE "standard"]

\* hash is the string hash of the running interpreter, one value per hotel type
create_fallback_data(city, country, date, hotel_config, holiday, major, hash) ==
    FallbackData(city, date, holiday, major,
                 FallbackBasePrice(holiday, major),
                 RRound(FallbackBasePrice(holiday, major), 100),
                 FallbackOccupancy(hotel_config, holiday),
                 rooms_sold(Get(hotel_config, "totalRooms", 100),
                            FallbackOccupancy(hotel_config, holiday)),
                 hash)

\* a call create_fallback_data(*args): Python binds the arguments to the
\* parameters of the definition in force, and raises TypeError when their
\* numbers differ
CallCreateFallbackData(args, hash) ==
    IF Len(args) = FallbackParameters
    THEN [raised |-> FALSE,
          result |-> create_fallback_data(args[1], args[2], args[3], args[4],
                                          args[5], args[6], hash)]
    ELSE [raised |-> TRUE,
          error |-> "create_fallback_data() takes 6 positional arguments but 7 were given"]

\* the rows of price_history after the INSERT; a database error is logged and
\* leaves the table as it was (the tables competitor_data and market_events
\* are not part of the state)
store_recommendation_data(history, location, date, result, db_ok) ==
    LET kpis == Get(result, "kpis", EmptyConfig)
    IN  IF db_ok
        THEN Append(history,
                    [location |-> location,
                     target_date |-> date,
                     recommended_price |-> Get(result, "recommended_price", 0),
                     confidence |-> Get(result, "confidence", 0),
                     occupancy |-> Get(kpis, "projected_occupancy", 0),
                     revpar |-> Get(kpis, "revpar", 0),
                     adr |-> Get(kpis, "adr", 0),
                     revenue |-> Get(kpis, "projected_revenue", 0)])
        ELSE history

\* tavily_event['source'] = 'tavily'; ai_events.append(tavily_event)
MergeTavily(ai_events, tavily_events) ==
    ai_events \o [i \in 1..Len(tavily_events) |-> Put(tavily_events[i], "source", "tavily")]

\* if len(competitors) < 10: result = enhance_competitor_data(...)
EnhanceCompetitors(result, city, hash) ==
    IF Len(Get(result, "competitors", <<>>)) < 10
    THEN enhance_competitor_data(result, city, hash)
    ELSE result

\* if len(events) < 2 and is_holiday_season: result = enhance_market_events(...)
EnhanceEvents(result, events, city, date, holiday) ==
    IF Len(events) < 2 /\ holiday
    THEN enhance_market_events(result, city, date, holiday)
    ELSE result

\* the result of get_ai_recommendation for the parsed answer of the AI and
\* the merged events
ParsedResult(result, ai_events, city, date, holiday, hash) ==
    EnhanceEvents(EnhanceCompetitors(Put(result, "market_events", ai_events), city, hash),
                  ai_events, city, date, holiday)

\* Variant of StoreAndReturn in which the failure of the store is raised
StoreOrRaise(result, history, location, date, db_ok) ==
    IF db_ok
    THEN [raised |-> FALSE, result |-> result,
          history |-> store_recommendation_data(history, location, date, result, db_ok)]
    ELSE [raised |-> TRUE, error |-> "OperationalError", history |-> history]

\* store_recommendation_data(...); return result
StoreAndReturn(result, history, location, date, db_ok) ==
    [raised |-> FALSE, result |-> result,
     history |-> store_recommendation_data(history, location, date, result, db_ok)]

\* the body of get_ai_recommendation under its try: world holds what the
\* function reads from outside (the Tavily search, the AI request, the
\* database, the string hash)
AiRequestBody(city, country, date, hotel_config, world, history) ==
    IF world.ai.kind = "exception"
    THEN [raised |-> TRUE, error |-> "ConnectionError", history |-> history]
    ELSE IF world.ai.status_code # 200 \/ ~world.ai.parsable
    THEN CallCreateFallbackData(<<city, country, date, hotel_config,
                                  is_holiday_season(date), is_major_city(city),
                                  world.tavily_events>>, world.hash)
         @@ [history |-> history]
    ELSE StoreAndReturn(
             ParsedResult(world.ai.result,
                          MergeTavily(Get(world.ai.result, "market_events", <<>>),
                                      world.tavily_events),
                          city, date, is_holiday_season(date), world.hash),
             history, <<city, country>>, date, world.db_ok)

\* except Exception: return create_fallback_data(..., [])
RecoverWithFallback(body, city, country, date, hotel_config, world) ==
    IF body.raised
    THEN CallCreateFallbackData(<<city, country, date, hotel_config,
                                  is_holiday_season(date), is_major_city(city),
                                  <<>>>>, world.hash)
         @@ [history |-> body.history]
    ELSE body

get_ai_recommendation(city, country, date, hotel_config, world, history) ==
    RecoverWithFallback(AiRequestBody(city, country, date, hotel_config, world, history),
                        city, country, date, hotel_config, world)

\* the data of the else branch of get_price_recommendation
StaticFallback(hotel_config) ==
    [recommended_price |-> 15000,
     confidence |-> 70,
     competitors |-> <<[name |-> <<"Sample Hotel", "">>, price |-> 16000]>>,
     market_events |-> <<>>,
     kpis |-> [projected_occupancy |-> 10 * Get(hotel_config, "baseOccupancy", 65),
               adr |-> 15000, revpar |-> 9750, projected_revenue |-> 1500000,
               rooms_sold |-> 65],
     demand_level |-> "medium"]

\* the response of get_price_recommendation for what get_ai_recommendation
\* returned or raised, and the rows of price_history after it
RecommendationResponse(recommendation, city, country, date, hotel_config) ==
    IF recommendation.raised
    THEN [response |-> InternalError(recommendation.error),
          history |-> recommendation.history]
    ELSE [response |->
             [status |-> 200, success |-> TRUE,
              data |-> IF DOMAIN recommendation.result # {}
                       THEN recommendation.result
                       ELSE StaticFallback(hotel_config),
              fallback_note |-> DOMAIN recommendation.result = {},
              location |-> <<city, country>>, date |-> date],
          history |-> recommendation.history]

\* the request of the endpoint, its fields defaulted
ServeRecommendation(city, country, date, hotel_config, world, history) ==
    RecommendationResponse(
        get_ai_recommendation(city, country, date, hotel_config, world, history),
        city, country, date, hotel_config)

get_price_recommendation(data, world, history) ==
    ServeRecommendation(Get(Get(data, "location", EmptyConfig), "city", "Montreal"),
                        Get(Get(data, "location", EmptyConfig), "country", "Canada"),
                        Get(data, "date", world.today),
                        Get(data, "hotelConfig", EmptyConfig),
                        world, history)

---------------------------------------------------------------------------
(* app.py: GET /api/health, GET and POST /api/hotels                       *)

\* Variant of health_check that reports a degraded service
health_check_degraded(now) ==
    [status |-> 503,
     body |-> [status |-> "degraded", timestamp |-> now, version |-> "2.0.0"]]

\* the handler reads the clock and nothing else
health_check(now) ==
    [status |-> 200,
     body |-> [status |-> "healthy", timestamp |-> now, version |-> "2.0.0"]]

\* the NOT NULL columns of table hotel_configs, by the key of the request that
\* fills them
RequiredHotelKeys ==
    {"hotelName", "location", "totalRooms", "baseOccupancy", "minPrice", "maxPrice"}

\* the row the INSERT of manage_hotels creates: id is the next AUTOINCREMENT
\* value, is_active and created_at take their defaults (created_at is the
\* ordinal of the insertion, rows being created in the order of time)
hotel_row(data, id) ==
    [id |-> id,
     hotel_name |-> data.hotelName,
     location |-> data.location,
     total_rooms |-> data.totalRooms,
     base_occupancy |-> data.baseOccupancy,
     min_price |-> data.minPrice,
     max_price |-> data.maxPrice,
     star_rating |-> Get(data, "starRating", 3),
     is_active |-> TRUE,
     created_at |-> id]

\* Variant of hotel_entry that reports the column base_occupancy as totalRooms
hotel_entry_mixed(row) ==
    [id |-> row.id,
     hotelName |-> row.hotel_name,
     location |-> row.location,
     totalRooms |-> row.base_occupancy,
     baseOccupancy |-> row.base_occupancy,
     minPrice |-> row.min_price,
     maxPrice |-> row.max_price,
     starRating |-> row.star_rating,
     createdAt |-> row.created_at]

\* the entry of a row in the answer of GET /api/hotels
hotel_entry(row) ==
    [id |-> row.id,
     hotelName |-> row.hotel_name,
     location |-> row.location,
     totalRooms |-> row.total_rooms,
     baseOccupancy |-> row.base_occupancy,
     minPrice |-> row.min_price,
     maxPrice |-> row.max_price,
     starRating |-> row.star_rating,
     createdAt |-> row.created_at]

IsActive(row) == row.is_active

\* SELECT * FROM hotel_configs WHERE is_active = 1 ORDER BY created_at DESC
\* (the table is in the order of creation)
SelectActiveHotels(table) == Reverse(SelectSeq(table, IsActive))

\* GET /api/hotels
get_hotels(table, db_ok) ==
    IF db_ok
    THEN [status |-> 200, success |-> TRUE,
          hotels |-> [i \in 1..Len(SelectActiveHotels(table)) |->
                         hotel_entry(SelectActiveHotels(table)[i])]]
    ELSE InternalError("unable to open database file")

\* POST /api/hotels: the response and the table after it
create_hotel(data, table, db_ok) ==
    IF ~db_ok
    THEN [response |-> InternalError("unable to open database file"), table |-> table]
    ELSE IF ~(RequiredHotelKeys \subseteq DOMAIN data)
    THEN [response |-> InternalError("NOT NULL constraint failed"), table |-> table]
    ELSE [response |-> [status |-> 200, success |-> TRUE,
                        message |-> "Hotel created successfully",
                        hotel_id |-> Len(table) + 1],
          table |-> Append(table, hotel_row(data, Len(table) + 1))]

\* the response of /api/hotels and the table after it
manage_hotels(method, data, table, db_ok) ==
    IF method = "GET"
    THEN [response |-> get_hotels(table, db_ok), table |-> table]
    ELSE create_hotel(data, table, db_ok)

---------------------------------------------------------------------------
(* The calls of the pricing engine and their arguments                     *)

\* Longest competitor list and longest event list of a call
MaxCompetitors == 2

MaxEvents == 2

\* Largest desiredRank of a price-override request (the smallest is -1)
MaxRank == 3

SeqsUpTo(S, n) == UNION {[1..k -> S] : k \in 0..n}

\* the lists of at most n different elements of the list, in its order
DistinctSeqsUpTo(list, n) ==
    {[i \in 1..Len(s) |-> list[s[i]]] :
        s \in {t \in SeqsUpTo(1..Len(list), n) :
                 \A i, j \in 1..Len(t) : i < j => t[i] < t[j]}}

CompetitorPool ==
    {[price |-> 40, source |-> "Google Hotels"],
     [price |-> 100, source |-> "Booking.com"],
     [price |-> 300, source |-> "Google Hotels"]}

EventPool ==
    <<[name |-> "Jazz Festival", impact |-> "high", source |-> "Tavily Search"],
      [name |-> "Marathon", impact |-> "high", source |-> "AI"],
      [name |-> "Trade Fair", impact |-> "medium", source |-> "AI"],
      [name |-> "Farmers Market", impact |-> "low", source |-> "AI"]>>

HotelConfigs ==
    {EmptyConfig,
     [totalRooms |-> 200, starRating |-> 4],
     [minPrice |-> 200, maxPrice |-> 260, baseOccupancy |-> 10],
     [baseOccupancy |-> 100, totalRooms |-> 37],
     [minPrice |-> 300, maxPrice |-> 120],
     [totalRooms |-> 0, baseOccupancy |-> 0]}

Locations == {<<"Toronto", "Canada">>, <<"Austin", "USA">>}

Day(y, m, d) == [year |-> y, month |-> m, day |-> d]

\* the moment of a call (the date of datetime.now() and whether it is
\* midnight sharp)
Now(y, m, d, midnight) == [date |-> Day(y, m, d), midnight |-> midnight]

\* target date and moment of the call: every weekday, the seasons of both
\* calendars, lead times under 7 days, from 7 to 60, over 60 and negative,
\* and one target string that is no date ("2026-02-30")
Schedules ==
    {[date |-> Day(2026, 7, 4), now |-> Now(2026, 7, 1, FALSE)],
     [date |-> Day(2026, 7, 3), now |-> Now(2026, 7, 1, TRUE)],
     [date |-> Day(2026, 12, 24), now |-> Now(2026, 9, 1, TRUE)],
     [date |-> Day(2026, 1, 5), now |-> Now(2026, 7, 1, FALSE)],
     [date |-> Day(2026, 2, 3), now |-> Now(2026, 9, 1, TRUE)],
     [date |-> Day(2026, 3, 4), now |-> Now(2026, 7, 1, FALSE)],
     [date |-> Day(2026, 11, 1), now |-> Now(2026, 9, 1, TRUE)],
     [date |-> Day(2026, 9, 10), now |-> Now(2026, 9, 1, TRUE)],
     [date |-> Day(2026, 9, 10), now |-> Now(2026, 7, 1, FALSE)],
     [date |-> Day(2026, 2, 30), now |-> Now(2026, 7, 1, FALSE)]}

DaysInMonth(y, m) ==
    IF m = 2 THEN (IF IsLeap(y) THEN 29 ELSE 28)
    ELSE IF m \in {4, 6, 9, 11} THEN 30 ELSE 31

\* whether datetime.strptime(date, "%Y-%m-%d") accepts the date
ValidDate(d) ==
    d.month \in 1..12 /\ d.day >= 1 /\ d.day <= DaysInMonth(d.year, d.month)

\* the outcome of a call of calculate_optimal_pricing: its result, or the
\* ValueError of strptime (nothing else in it raises)
CallCalculateOptimalPricing(location, date, hotel_config, competitors, market_intel, now) ==
    IF ValidDate(date)
    THEN [op |-> "calculate_optimal_pricing", raised |-> FALSE,
          result |-> calculate_optimal_pricing(location, date, hotel_config,
                                               competitors, market_intel, now)]
    ELSE [op |-> "calculate_optimal_pricing", raised |-> TRUE, error |-> "ValueError"]

OverrideRequests ==
    {[desiredRank |-> r, competitors |-> cs, hotelConfig |-> h] :
        r \in -1..MaxRank, cs \in SeqsUpTo(CompetitorPool, MaxCompetitors),
        h \in HotelConfigs}
    \cup {[hotelConfig |-> h] : h \in HotelConfigs}
    \cup {[competitors |-> cs] : cs \in SeqsUpTo(CompetitorPool, MaxCompetitors)}

\* the events of a call are different events, listed in the order of
\* EventPool; a competitor may be listed twice
CalculateRequests ==
    {[op |-> "calculate_optimal_pricing", location |-> location,
      date |-> schedule.date, hotel_config |-> hotel_config,
      competitors |-> competitors,
      market_intel |-> [market_events |-> events], now |-> schedule.now] :
        location \in Locations, schedule \in Schedules, hotel_config \in HotelConfigs,
        competitors \in SeqsUpTo(CompetitorPool, MaxCompetitors),
        events \in DistinctSeqsUpTo(EventPool, MaxEvents)}

\* The requests of POST /api/price-recommendation and what the handler finds
\* outside the program while it serves them
ApiCities == {<<"Toronto", "Canada">>, <<"Austin", "USA">>, <<"San Francisco", "USA">>}

ApiDates == {Day(2026, 12, 24), Day(2026, 7, 4), Day(2026, 1, 5)}

ApiConfigs == {EmptyConfig, [baseOccupancy |-> 80, totalRooms |-> 50]}

\* what search_events_with_tavily can return: events with distinct names
TavilyPool ==
    <<[name |-> "Jazz Festival", impact |-> "high", source |-> "Tavily Search"],
      [name |-> "Expo", impact |-> "medium", source |-> "Tavily Search"]>>

\* the JSON object in the answer of the AI, when it is one
AiResults ==
    {[recommended_price |-> 20000, confidence |-> 88,
      competitors |-> <<>>, market_events |-> <<>>,
      kpis |-> [projected_occupancy |-> 720, adr |-> 20000, revpar |-> 14400,
                projected_revenue |-> 1440000, rooms_sold |-> 72]],
     [recommended_price |-> 25000, confidence |-> 90,
      competitors |-> [i \in 1..10 |-> [name |-> <<"Hilton", "">>, price |-> 21000 + 1000 * i]],
      market_events |-> <<[name |-> "Trade Fair", impact |-> "medium", source |-> "ai"],
                          [name |-> "Marathon", impact |-> "high", source |-> "ai"]>>],
     [market_events |-> <<>>]}

\* the outcome of requests.post: an exception, or a response with a status
\* code whose text is or is not a JSON object
AiOutcomes ==
    {[kind |-> "exception"],
     [kind |-> "response", status_code |-> 500, parsable |-> FALSE, result |-> EmptyConfig],
     [kind |-> "response", status_code |-> 200, parsable |-> FALSE, result |-> EmptyConfig]}
    \cup {[kind |-> "response", status_code |-> 200, parsable |-> TRUE, result |-> r] :
            r \in AiResults}

HashFunctions == {[i \in 1..15 |-> 0], [i \in 1..15 |-> (37 * i) % 100]}

Worlds ==
    [tavily_events : DistinctSeqsUpTo(TavilyPool, MaxEvents), ai : AiOutcomes,
     db_ok : BOOLEAN, hash : HashFunctions, today : {Day(2026, 7, 1)}]

ApiRequests ==
    {[op |-> "get_price_recommendation",
      data |-> [location |-> [city |-> c[1], country |-> c[2]], date |-> d,
                hotelConfig |-> h],
      world |-> w] : c \in ApiCities, d \in ApiDates, h \in ApiConfigs, w \in Worlds}
    \cup {[op |-> "get_price_recommendation", data |-> EmptyConfig, world |-> w] :
            w \in Worlds}

\* The direct calls of create_fallback_data, with the arguments of its
\* definition in force
FallbackRequests ==
    {[op |-> "create_fallback_data",
      args |-> <<c[1], c[2], d, h, holiday, major>>, hash |-> f] :
        c \in ApiCities, d \in ApiDates, h \in HotelConfigs,
        holiday \in BOOLEAN, major \in BOOLEAN, f \in HashFunctions}

---------------------------------------------------------------------------
(* app.py: search_events_with_tavily                                       *)

\* the name of an event whose "name" is the JSON null: None has no lower()
NullName == "<null>"

\* The loop over search_queries: a query adds the events extracted from its
\* results when its answer has status 200; an exception in the query and any
\* other status add nothing, and the loop goes on to the next query.
RECURSIVE all_events(_)
all_events(outcomes) ==
    IF outcomes = <<>> THEN <<>>
    ELSE (IF Head(outcomes).kind = "response" /\ Head(outcomes).status_code = 200
          THEN Head(outcomes).events ELSE <<>>)
         \o all_events(Tail(outcomes))

\* the loop over all_events: an event is kept when its lowercased name was not
\* seen before
RECURSIVE unique_events(_, _)
unique_events(events, seen_names) ==
    IF events = <<>> THEN <<>>
    ELSE IF lower(Head(events).name) \in seen_names
         THEN unique_events(Tail(events), seen_names)
         ELSE <<Head(events)>>
              \o unique_events(Tail(events), seen_names \cup {lower(Head(events).name)})

\* The events returned, unique_events[:5], and the number of searches posted.
\* Without an API key nothing is posted; a date that strptime rejects and an
\* event whose name is not a string raise inside the outer try, whose handler
\* returns [].
search_events_with_tavily(api_key, date, outcomes) ==
    IF ~api_key THEN [events |-> <<>>, searches |-> 0]
    ELSE IF ~ValidDate(date) THEN [events |-> <<>>, searches |-> 0]
    ELSE IF \E i \in 1..Len(all_events(outcomes)) : all_events(outcomes)[i].name = NullName
    THEN [events |-> <<>>, searches |-> Len(outcomes)]
    ELSE [events |-> SubSeq(unique_events(all_events(outcomes), {}), 1,
                            Min(5, Len(unique_events(all_events(outcomes), {})))),
          searches |-> Len(outcomes)]

\* what one search query can end in: an exception of requests.post, an answer
\* with another status, or an answer with status 200 and the events extracted
\* from its results
QueryOutcomes ==
    {[kind |-> "exception"],
     [kind |-> "response", status_code |-> 503, events |-> <<>>],
     [kind |-> "response", status_code |-> 200, events |-> <<>>],
     [kind |-> "response", status_code |-> 200,
      events |-> <<[name |-> "Jazz Festival"], [name |-> "jazz festival"]>>],
     [kind |-> "response", status_code |-> 200,
      events |-> <<[name |-> "Expo"], [name |-> "JAZZ FESTIVAL"]>>],
     [kind |-> "response", status_code |-> 200,
      events |-> <<[name |-> "Parade"], [name |-> "Marathon"],
                   [name |-> "Film Week"], [name |-> "Book Fair"]>>],
     [kind |-> "response", status_code |-> 200, events |-> <<[name |-> NullName]>>]}

\* search_queries has four entries
TavilyRequests ==
    {[op |-> "search_events_with_tavily", api_key |-> k, date |-> d, outcomes |-> o] :
        k \in BOOLEAN, d \in {Day(2026, 7, 4), Day(2026, 2, 30)},
        o \in [1..4 -> QueryOutcomes]}

---------------------------------------------------------------------------
(* tools.py: _deduplicate_and_enhance_competitors and _names_are_similar.  *)
(* A normalized name is the sequence of the words that split() finds.      *)

\* len(intersection) / len(union) > 0.6
_names_are_similar(name1, name2) ==
    /\ name1 # <<>>
    /\ name2 # <<>>
    /\ 5 * Cardinality({name1[i] : i \in 1..Len(name1)}
                        \cap {name2[i] : i \in 1..Len(name2)})
         > 3 * Cardinality({name1[i] : i \in 1..Len(name1)}
                            \cup {name2[i] : i \in 1..Len(name2)})

\* An empty list is returned as it is.  For any other list the loop starts
\* with re.sub on the first competitor: tools.py imports os, json, requests,
\* datetime, typing, sqlite3, contextlib, logging and bs4 (lines 1-9) and
\* never re, so the lookup of the name raises NameError before a name is
\* normalized, and nothing in the function catches it.
_deduplicate_and_enhance_competitors(competitors) ==
    IF competitors = <<>>
    THEN [raised |-> "", competitors |-> <<>>]
    ELSE [raised |-> "NameError", competitors |-> <<>>]

MaxScraped == 3

\* the lists of scraped competitors
DeduplicateRequests ==
    {[op |-> "_deduplicate_and_enhance_competitors", competitors |-> cs] :
        cs \in SeqsUpTo({[name |-> "Hilton Toronto Downtown Suites", price |-> 20000],
                         [name |-> "HILTON Toronto Downtown Suites.", price |-> 30000],
                         [name |-> "Hilton Toronto Downtown Inn", price |-> 15000],
                         [name |-> "Grand Plaza", price |-> 10000]}, MaxScraped)}

\* the direct calls of _names_are_similar: names that share all, three of
\* four, three of five and none of their words, and the empty name
SimilarityRequests ==
    {[op |-> "_names_are_similar", name1 |-> n1, name2 |-> n2] :
        n1, n2 \in {<<"hilton", "toronto", "downtown", "suites">>,
                    <<"hilton", "toronto", "downtown", "inn">>,
                    <<"hilton", "toronto", "downtown">>,
                    <<"suites", "hilton", "toronto", "downtown", "hilton">>,
                    <<"grand", "plaza">>,
                    <<>>}}

NoCall == [op |-> "none"]

\* A behaviour of Spec is one call: the arguments are drawn at the start, the call
\* computes the response.
Init ==
    /\ request \in CalculateRequests
                   \cup {[op |-> "price_override", data |-> d] : d \in OverrideRequests}
                   \cup ApiRequests
                   \cup FallbackRequests
                   \cup TavilyRequests
                   \cup DeduplicateRequests
                   \cup SimilarityRequests
    /\ response = NoCall
    /\ price_history = <<>>
    /\ hotel_configs = <<>>

CalculateOptimalPricing ==
    /\ request.op = "calculate_optimal_pricing"
    /\ response = NoCall
    /\ response' = CallCalculateOptimalPricing(request.location, request.date,
                       request.hotel_config, request.competitors,
                       request.market_intel, request.now)
    /\ UNCHANGED <<request, price_history, hotel_configs>>

PriceOverride ==
    /\ request.op = "price_override"
    /\ response = NoCall
    /\ response' = [op |-> "price_override"] @@ price_override(request.data)
    /\ UNCHANGED <<request, price_history, hotel_configs>>

GetPriceRecommendation ==
    /\ request.op = "get_price_recommendation"
    /\ response = NoCall
    /\ response' = [op |-> "get_price_recommendation"]
                    @@ get_price_recommendation(request.data, request.world,
                                                price_history).response
    /\ price_history' = get_price_recommendation(request.data, request.world,
                                                  price_history).history
    /\ UNCHANGED <<request, hotel_configs>>

CreateFallbackData ==
    /\ request.op = "create_fallback_data"
    /\ response = NoCall
    /\ response' = [op |-> "create_fallback_data"]
                    @@ CallCreateFallbackData(request.args, request.hash)
    /\ UNCHANGED <<request, price_history, hotel_configs>>

SearchEventsWithTavily ==
    /\ request.op = "search_events_with_tavily"
    /\ response = NoCall
    /\ response' = [op |-> "search_events_with_tavily"]
                    @@ search_events_with_tavily(request.api_key, request.date,
                                                 request.outcomes)
    /\ UNCHANGED <<request, price_history, hotel_configs>>

DeduplicateAndEnhanceCompetitors ==
    /\ request.op = "_deduplicate_and_enhance_competitors"
    /\ response = NoCall
    /\ response' = [op |-> "_deduplicate_and_enhance_competitors"]
                    @@ _deduplicate_and_enhance_competitors(request.competitors)
    /\ UNCHANGED <<request, price_history, hotel_configs>>

NamesAreSimilar ==
    /\ request.op = "_names_are_similar"
    /\ response = NoCall
    /\ response' = [op |-> "_names_are_similar",
                    similar |-> _names_are_similar(request.name1, request.name2)]
    /\ UNCHANGED <<request, price_history, hotel_configs>>

Next ==
    \/ CalculateOptimalPricing
    \/ PriceOverride
    \/ GetPriceRecommendation
    \/ CreateFallbackData
    \/ SearchEventsWithTavily
    \/ DeduplicateAndEnhanceCompetitors
    \/ NamesAreSimilar

Spec == Init /\ [][Next]_vars

---------------------------------------------------------------------------
(* The server: requests arrive one after the other, each is served by its  *)
(* handler over the tables the earlier ones left.                          *)

\* Most rows of table hotel_configs and of table price_history
MaxHotels == 3

MaxHistory == 1

\* bodies of POST /api/hotels: complete, without starRating, without
\* hotelName, empty
HotelPosts ==
    {[hotelName |-> "Posted Inn", location |-> "Austin, USA", totalRooms |-> 80,
      baseOccupancy |-> 60, minPrice |-> 90, maxPrice |-> 250, starRating |-> 5],
     [hotelName |-> "Harbour Lodge", location |-> "Toronto, Canada", totalRooms |-> 40,
      baseOccupancy |-> 55, minPrice |-> 70, maxPrice |-> 180],
     [location |-> "Austin, USA", totalRooms |-> 80, baseOccupancy |-> 60,
      minPrice |-> 90, maxPrice |-> 250],
     EmptyConfig}

\* the row of test_get_hotels
TestHotel(id, is_active) ==
    [id |-> id, hotel_name |-> "Test Hotel", location |-> "Testville, USA",
     total_rooms |-> 150, base_occupancy |-> 75, min_price |-> 100, max_price |-> 400,
     star_rating |-> 4, is_active |-> is_active, created_at |-> id]

\* table hotel_configs when the server starts
InitialHotels ==
    {<<>>, <<TestHotel(1, TRUE)>>, <<TestHotel(1, FALSE), TestHotel(2, TRUE)>>}

\* The requests of the server; db_ok is whether the database answers while
\* the request is served
HotelRequests ==
    {[op |-> "manage_hotels", method |-> "GET", data |-> EmptyConfig, db_ok |-> b] :
        b \in BOOLEAN}
    \cup {[op |-> "manage_hotels", method |-> "POST", data |-> d, db_ok |-> b] :
            d \in HotelPosts, b \in BOOLEAN}

HealthRequests ==
    {[op |-> "health_check", now |-> Now(2026, 7, 1, FALSE), db_ok |-> b] : b \in BOOLEAN}

RecommendationRequests ==
    {[op |-> "get_price_recommendation", data |-> EmptyConfig, world |-> w] :
        w \in {v \in Worlds : v.tavily_events = <<>> /\ v.hash[1] = 0}}

InitServer ==
    /\ request = NoCall
    /\ response = NoCall
    /\ price_history = <<>>
    /\ hotel_configs \in InitialHotels

\* the next request arrives when the last one has been answered
Receive ==
    /\ request = NoCall \/ response # NoCall
    /\ \/ request' \in HealthRequests
       \/ /\ request' \in HotelRequests
          /\ request'.method = "POST" => Len(hotel_configs) < MaxHotels
       \/ /\ request' \in RecommendationRequests
          /\ Len(price_history) < MaxHistory
    /\ response' = NoCall
    /\ UNCHANGED <<price_history, hotel_configs>>

HealthCheck ==
    /\ request.op = "health_check"
    /\ response = NoCall
    /\ response' = [op |-> "health_check"] @@ health_check(request.now)
    /\ UNCHANGED <<request, price_history, hotel_configs>>

ManageHotels ==
    /\ request.op = "manage_hotels"
    /\ response = NoCall
    /\ response' = [op |-> "manage_hotels"]
                    @@ manage_hotels(request.method, request.data, hotel_configs,
                                     request.db_ok).response
    /\ hotel_configs' = manage_hotels(request.method, request.data, hotel_configs,
                                      request.db_ok).table
    /\ UNCHANGED <<request, price_history>>

NextServer == Receive \/ HealthCheck \/ ManageHotels \/ GetPriceRecommendation

SpecServer == InitServer /\ [][NextServer]_vars

---------------------------------------------------------------------------
(* Properties                                                              *)

\* the call of calculate_optimal_pricing has returned a result
Calculated == response.op = "calculate_optimal_pricing" /\ ~response.raised

\* the price-override request has been answered with a price
Overridden == response.op = "price_override" /\ response.success

\* the configuration calculate_optimal_pricing works with
CalculateConfig == MergeConfig(request.hotel_config)

\* the hotelConfig of the price-override request
OverrideConfig == Get(request.data, "hotelConfig", EmptyConfig)

OverrideMinPrice == Get(OverrideConfig, "minPrice", 80)

OverrideMaxPrice == Get(OverrideConfig, "maxPrice", 500)

\* C1: for every configuration with minPrice <= maxPrice and every competitor
\* and event list, the recommended_price of calculate_optimal_pricing lies in
\* [minPrice, maxPrice], and so does the override_price of price_override for
\* a non-empty competitor list.
PriceWithinBounds ==
    /\ (Calculated /\ CalculateConfig.minPrice <= CalculateConfig.maxPrice)
       => /\ 100 * CalculateConfig.minPrice <= response.result.recommended_price
          /\ response.result.recommended_price <= 100 * CalculateConfig.maxPrice
    /\ (Overridden /\ OverrideMinPrice <= OverrideMaxPrice)
       => /\ 100 * OverrideMinPrice <= response.override_price
          /\ response.override_price <= 100 * OverrideMaxPrice

\* C1 case: the competitors price the hotel above its maxPrice and the
\* recommendation is the maxPrice
PriceClampedAtCeiling ==
    /\ Calculated
    /\ request.competitors # <<>>
    /\ CalculateConfig.minPrice < CalculateConfig.maxPrice
    /\ response.result.recommended_price = 100 * CalculateConfig.maxPrice

AiFailed(ai) == ai.kind = "exception" \/ ai.status_code # 200 \/ ~ai.parsable

\* C2: whenever the AI request fails (exception, non-200 status, unparsable
\* JSON), POST /api/price-recommendation answers with success = true and the
\* fallback recommendation, not with an error response.
AiFailureAnsweredWithFallback ==
    (response.op = "get_price_recommendation" /\ AiFailed(request.world.ai))
    => /\ response.success
       /\ response.status = 200
       /\ "data" \in DOMAIN response

\* the KPIs of a result are consistent with the occupancy it reports (in
\* tenths of a percent); money is in cents and revpar may differ by the
\* rounding of a cent
ConsistentKpis(total_rooms, occupancy, kpis) ==
    /\ kpis.rooms_sold = (total_rooms * occupancy) \div 1000
    /\ Abs(1000 * kpis.revpar - kpis.adr * occupancy) <= 1000
    /\ kpis.projected_revenue = kpis.rooms_sold * kpis.adr

\* C3: in every result of calculate_optimal_pricing and of price_override,
\* rooms_sold = floor(totalRooms * projected_occupancy / 100) for the reported
\* projected_occupancy, revpar = adr * projected_occupancy / 100 within
\* rounding, and projected_revenue = rooms_sold * adr.
KpisConsistent ==
    /\ Calculated
       => ConsistentKpis(CalculateConfig.totalRooms,
                         response.result.projected_occupancy, response.result.kpis)
    /\ Overridden
       => ConsistentKpis(Get(OverrideConfig, "totalRooms", 100),
                         response.kpis.projected_occupancy, response.kpis)

\* C4: for every baseOccupancy in 0..100 and every competitor and event list,
\* the projected_occupancy of calculate_optimal_pricing and of price_override
\* is between 0 and 95 (here in tenths of a percent).
OccupancyWithinCeiling ==
    /\ (Calculated /\ CalculateConfig.baseOccupancy \in 0..100)
       => response.result.projected_occupancy \in 0..950
    /\ (Overridden /\ Get(OverrideConfig, "baseOccupancy", 65) \in 0..100)
       => response.kpis.projected_occupancy \in 0..950

\* C4 case: a full base occupancy and a high-impact event, reported as 95
OccupancyAtCeiling ==
    /\ Calculated
    /\ CalculateConfig.baseOccupancy = 100
    /\ high_impact_events(request.market_intel.market_events) # <<>>
    /\ response.result.projected_occupancy = 950

\* C5: calculate_optimal_pricing and price_override never report a
\* projected_occupancy below the floor (25 percent, the lower of the floors
\* 25 and 30), whatever the input, an empty competitor list and a low
\* baseOccupancy included.
OccupancyNeverBelowFloor ==
    /\ Calculated => response.result.projected_occupancy >= 250
    /\ Overridden => response.kpis.projected_occupancy >= 250

\* C6: for every competitor list, event list and lead time, the
\* confidence_score lies in [0.45, 0.98] (here in 1/10000); it is never 0 and
\* never 1.
ConfidenceWithinBounds ==
    Calculated
    => /\ response.result.confidence_score >= 4500
       /\ response.result.confidence_score <= 9800

\* C6 case: no competitor, the weighted confidence is under the floor and the
\* score is the floor
ConfidenceAtFloor ==
    /\ Calculated
    /\ weighted_confidence(request.competitors, request.market_intel.market_events,
                           DaysUntil(request.date, request.now)) < 4500
    /\ response.result.confidence_score = 4500

\* the call of calculate_optimal_pricing with no competitor and no event, for
\* a target date that is a date
EmptyMarketCall ==
    /\ request.op = "calculate_optimal_pricing"
    /\ response # NoCall
    /\ ValidDate(request.date)
    /\ request.competitors = <<>>
    /\ request.market_intel.market_events = <<>>

\* C8: with no competitor and no event calculate_optimal_pricing does not
\* raise; its result has the recommended_price within [minPrice, maxPrice]
\* (for minPrice <= maxPrice), the market_position "market_rate", and a
\* confidence_score within 0.05 of the floor 0.45.
EmptyMarketHandled ==
    EmptyMarketCall
    => /\ ~response.raised
       /\ DOMAIN response.result =
            {"recommended_price", "projected_occupancy", "confidence_score",
             "reasoning", "market_position", "competitor_analysis",
             "demand_drivers", "kpis"}
       /\ CalculateConfig.minPrice <= CalculateConfig.maxPrice
          => /\ 100 * CalculateConfig.minPrice <= response.result.recommended_price
             /\ response.result.recommended_price <= 100 * CalculateConfig.maxPrice
       /\ response.result.market_position = "market_rate"
       /\ response.result.confidence_score \in 4500..5000

\* C8 case: the default base price, unclamped, is what an empty market gets
EmptyMarketPriced ==
    /\ EmptyMarketCall
    /\ ~response.raised
    /\ response.result.competitor_analysis.count = 0
    /\ response.result.recommended_price > 100 * CalculateConfig.minPrice
    /\ response.result.recommended_price < 100 * CalculateConfig.maxPrice

\* C9: a malformed configuration (minPrice > maxPrice, or totalRooms <= 0)
\* makes calculate_optimal_pricing fail with an error; no price or KPIs are
\* returned for it.
MalformedConfigRejected ==
    (/\ request.op = "calculate_optimal_pricing"
     /\ response # NoCall
     /\ \/ CalculateConfig.minPrice > CalculateConfig.maxPrice
        \/ CalculateConfig.totalRooms <= 0)
    => response.raised

\* C10: price_override with an empty or missing competitor list answers with
\* success = false and returns neither an override price nor KPIs.
EmptyOverrideRejected ==
    (/\ response.op = "price_override"
     /\ Get(request.data, "competitors", <<>>) = <<>>)
    => /\ ~response.success
       /\ "override_price" \notin DOMAIN response
       /\ "kpis" \notin DOMAIN response

\* C10 case: a request without the key competitors, answered 400
MissingCompetitorsAnswered ==
    /\ response.op = "price_override"
    /\ "competitors" \notin DOMAIN request.data
    /\ response.status = 400
    /\ ~response.success

\* the competitor prices of the price-override request, highest first
OverridePrices == Reverse(sorted(AllPrices(Get(request.data, "competitors", <<>>))))

OverrideRank == Get(request.data, "desiredRank", 1)

\* the target of rank k among the prices, highest first, in dollars
RankTarget(prices, k) ==
    IF k = 1 THEN <<105 * prices[1], 100>>
    ELSE IF k <= Len(prices) THEN <<prices[k - 1] + prices[k], 2>>
    ELSE <<95 * prices[Len(prices)], 100>>

\* C11: for a non-empty competitor list of n entries, sorted by price
\* descending, the target price of price_override before the min/max
\* constraints is the highest price x 1.05 for desiredRank = 1, the average of
\* the (k-1)-th and k-th price for 1 < desiredRank = k <= n, and the lowest
\* price x 0.95 for desiredRank > n; the override_price is that target,
\* constrained and rounded.
TargetFollowsRank ==
    (/\ response.op = "price_override"
     /\ OverridePrices # <<>>
     /\ OverrideRank >= 1)
    => /\ Reduce(target_price(OverridePrices, OverrideRank))
            = Reduce(RankTarget(OverridePrices, OverrideRank))
       /\ response.success
       /\ response.override_price
            = RRound(ClampTarget(OverrideMinPrice, OverrideMaxPrice,
                                 RankTarget(OverridePrices, OverrideRank)), 100)

\* C11 case: rank 2 of two competitors, priced at their average, within the
\* price limits
MiddleRankAveraged ==
    /\ Overridden
    /\ Len(OverridePrices) = 2
    /\ OverridePrices[1] > OverridePrices[2]
    /\ OverrideRank = 2
    /\ 100 * OverrideMinPrice < response.override_price
    /\ response.override_price < 100 * OverrideMaxPrice
    /\ response.override_price = 50 * (OverridePrices[1] + OverridePrices[2])

\* the ratio of the constrained target price of the price-override request
\* to the average competitor price
OverrideRatio ==
    RDiv(ClampTarget(OverrideMinPrice, OverrideMaxPrice,
                     target_price(OverridePrices, OverrideRank)),
         <<SumSeq(OverridePrices), Len(OverridePrices)>>)

\* positioning and occupancy adjustment of the five bands
FiveBands(ratio) ==
    IF RLess(<<120, 100>>, ratio) THEN [positioning |-> "premium", adjustment |-> <<85, 100>>]
    ELSE IF RLess(<<105, 100>>, ratio) THEN [positioning |-> "upscale", adjustment |-> <<92, 100>>]
    ELSE IF RLess(ratio, <<85, 100>>) THEN [positioning |-> "value", adjustment |-> <<115, 100>>]
    ELSE IF RLess(ratio, <<95, 100>>)
         THEN [positioning |-> "competitive-value", adjustment |-> <<108, 100>>]
    ELSE [positioning |-> "competitive", adjustment |-> <<1, 1>>]

\* C12: price_override derives positioning and occupancy from price_ratio =
\* target / average competitor price with five bands: over 1.20 "premium" and
\* 0.85 x occupancy; over 1.05 "upscale" and 0.92 x; under 0.85 "value" and
\* 1.15 x; under 0.95 "competitive-value" and 1.08 x; otherwise "competitive"
\* and 1.0 x.
FiveBandPositioning ==
    Overridden
    => /\ response.positioning = FiveBands(OverrideRatio).positioning
       /\ response.kpis.projected_occupancy
            = RRound(override_occupancy(Get(OverrideConfig, "baseOccupancy", 65),
                                        FiveBands(OverrideRatio).adjustment), 10)

\* the request of POST /api/price-recommendation has been answered, the AI
\* answered it with a JSON object, and the database refused the store
StoreFailed ==
    /\ response.op = "get_price_recommendation"
    /\ ~AiFailed(request.world.ai)
    /\ ~request.world.db_ok

\* C13: a failure inside store_recommendation_data never reaches the caller:
\* the recommendation returned is the parsed result that is returned when the
\* store succeeds, and the endpoint answers with it; no row is stored.
StoreFailureHidden ==
    StoreFailed
    => /\ response.success
       /\ response.status = 200
       /\ response.data
            = get_price_recommendation(request.data,
                                       [request.world EXCEPT !.db_ok = TRUE],
                                       <<>>).response.data
       /\ price_history = <<>>

\* C13 case: the store failed and the answer carries the price of the AI
StoreFailedAndAnswered ==
    /\ StoreFailed
    /\ response.success
    /\ "recommended_price" \in DOMAIN request.world.ai.result
    /\ response.data.recommended_price = request.world.ai.result.recommended_price
    /\ price_history = <<>>

\* the events of the call of calculate_optimal_pricing
CalculateEvents == request.market_intel.market_events

\* the event lists with more high impact than events: one more high-impact
\* event, or the impact of one event raised to high
MoreHighImpact(events) ==
    {Append(events, [name |-> "Film Festival", impact |-> "high", source |-> "AI"])}
    \cup {[events EXCEPT ![i].impact = "high"] : i \in 1..Len(events)}

\* the recommended_price of the call, had its events been events
PriceWithEvents(events) ==
    calculate_optimal_pricing(request.location, request.date, request.hotel_config,
                              request.competitors, [market_events |-> events],
                              request.now).recommended_price

\* C14: with date, location, configuration and competitors fixed, one more
\* high-impact event in the list, or the impact of an event raised to high,
\* never decreases the demand multiplier of calculate_optimal_pricing and
\* never decreases the recommended_price.
HighImpactNeverLowersPrice ==
    Calculated
    => \A events \in MoreHighImpact(CalculateEvents) :
          /\ ~RLess(demand_multiplier(events), demand_multiplier(CalculateEvents))
          /\ PriceWithEvents(events) >= response.result.recommended_price

\* C14 case: a call without high-impact event whose price is within the
\* price limits and rises with a high-impact event
HighImpactRaisesPrice ==
    /\ Calculated
    /\ high_impact_events(CalculateEvents) = <<>>
    /\ CalculateEvents # <<>>
    /\ response.result.recommended_price < 100 * CalculateConfig.maxPrice
    /\ \A events \in MoreHighImpact(CalculateEvents) :
          PriceWithEvents(events) > response.result.recommended_price

\* C15: for every hotel configuration with minPrice <= maxPrice, the fallback
\* recommendation of create_fallback_data has its recommended_price within
\* [minPrice, maxPrice] and its projected_occupancy at most 95 (here 950
\* tenths of a percent).
FallbackWithinInvariants ==
    (/\ response.op = "create_fallback_data"
     /\ Get(request.args[4], "minPrice", 80) <= Get(request.args[4], "maxPrice", 500))
    => /\ ~response.raised
       /\ 100 * Get(request.args[4], "minPrice", 80) <= response.result.recommended_price
       /\ response.result.recommended_price <= 100 * Get(request.args[4], "maxPrice", 500)
       /\ response.result.kpis.projected_occupancy <= 950

\* GET /api/hotels has been answered
HotelsAsked ==
    /\ response.op = "manage_hotels"
    /\ request.method = "GET"

\* the entry carries the values of the row
CarriesRow(entry, row) ==
    /\ entry.id = row.id
    /\ entry.hotelName = row.hotel_name
    /\ entry.totalRooms = row.total_rooms
    /\ entry.baseOccupancy = row.base_occupancy
    /\ entry.minPrice = row.min_price
    /\ entry.maxPrice = row.max_price
    /\ entry.starRating = row.star_rating

\* the answer is a success with exactly one entry per active row of the table
ListsActiveHotels ==
    /\ response.success
    /\ response.status = 200
    /\ Len(response.hotels) = Cardinality({i \in 1..Len(hotel_configs) : hotel_configs[i].is_active})
    /\ \A i \in 1..Len(hotel_configs) :
          hotel_configs[i].is_active
          => /\ Cardinality({j \in 1..Len(response.hotels) :
                               response.hotels[j].id = hotel_configs[i].id}) = 1
             /\ \E j \in 1..Len(response.hotels) :
                   CarriesRow(response.hotels[j], hotel_configs[i])

\* POST /api/hotels has been answered with a success: the table holds an
\* active row with the id of the answer and the values that were posted
CreatedHotelStored ==
    (/\ response.op = "manage_hotels"
     /\ request.method = "POST"
     /\ response.success)
    => /\ response.hotel_id \in 1..Len(hotel_configs)
       /\ hotel_configs[response.hotel_id].is_active
       /\ hotel_configs[response.hotel_id].id = response.hotel_id
       /\ hotel_configs[response.hotel_id].hotel_name = request.data.hotelName
       /\ hotel_configs[response.hotel_id].total_rooms = request.data.totalRooms
       /\ hotel_configs[response.hotel_id].base_occupancy = request.data.baseOccupancy
       /\ hotel_configs[response.hotel_id].min_price = request.data.minPrice
       /\ hotel_configs[response.hotel_id].max_price = request.data.maxPrice
       /\ "starRating" \in DOMAIN request.data
          => hotel_configs[response.hotel_id].star_rating = request.data.starRating

\* no step removes, changes or deactivates a row of the table
HotelsKept ==
    /\ Len(hotel_configs') >= Len(hotel_configs)
    /\ \A i \in 1..Len(hotel_configs) : hotel_configs'[i] = hotel_configs[i]

\* C16, with the database answering: GET /api/hotels answers success with
\* exactly one entry per active row, each carrying the row's hotelName,
\* totalRooms, baseOccupancy, minPrice, maxPrice and starRating, and answers
\* an error without hotels when the database fails; a successful POST
\* /api/hotels stores an active row with the posted values, and no later
\* request removes or changes a row, so every later GET the database answers
\* contains the created hotel.
HotelsListedWhenDatabaseAnswers ==
    /\ [](HotelsAsked => IF request.db_ok
                         THEN ListsActiveHotels
                         ELSE ~response.success /\ "hotels" \notin DOMAIN response)
    /\ []CreatedHotelStored
    /\ [][HotelsKept]_vars

\* C16 case: a GET after a POST lists the created hotel with the posted
\* values next to the hotel the table held before
CreatedHotelListed ==
    /\ HotelsAsked
    /\ response.success
    /\ Len(response.hotels) >= 2
    /\ \E j \in 1..Len(response.hotels) :
          /\ response.hotels[j].hotelName = "Posted Inn"
          /\ response.hotels[j].totalRooms = 80
          /\ response.hotels[j].starRating = 5
    /\ \E j \in 1..Len(response.hotels) : response.hotels[j].hotelName = "Test Hotel"

\* C16 as stated: every GET /api/hotels answers success with exactly one
\* entry per active hotel row carrying the row's values (so that every GET
\* after a successful POST contains the created hotel).
HotelsAlwaysListed == HotelsAsked => ListsActiveHotels

\* C17: GET /api/health always answers HTTP 200 with a body whose status is
\* "healthy", whatever requests were served before and whether or not the
\* database or the AI service is available.
HealthAlwaysHealthy ==
    response.op = "health_check"
    => /\ response.status = 200
       /\ response.body.status = "healthy"

\* C17 case: the health check answered while the database is down, after a
\* recommendation was stored and a hotel created
HealthyWithoutDatabase ==
    /\ response.op = "health_check"
    /\ ~request.db_ok
    /\ price_history # <<>>
    /\ \E i \in 1..Len(hotel_configs) : hotel_configs[i].hotel_name = "Posted Inn"
    /\ response.status = 200

\* the recommended_price of the call for a demand, a weekday and a seasonal
\* multiplier: the base price of its competitors times the multipliers and
\* the lead-time multiplier, within the price limits, rounded
PriceFrom(demand, dow, seasonal) ==
    recommended_price(
        CalculateConfig,
        calculated_price(base_price(competitor_stats(competitor_prices(request.competitors))),
                         demand, dow, seasonal,
                         lead_time_multiplier(DaysUntil(request.date, request.now),
                                              CalculateEvents)))

\* the demand multiplier that grows with the number of events
GrowingMultiplier(events) ==
    IF Len(high_impact_events(events)) > 0
    THEN <<125 + 10 * Len(high_impact_events(events)), 100>>
    ELSE IF Len(medium_impact_events(events)) > 0
    THEN <<110 + 5 * Len(medium_impact_events(events)), 100>>
    ELSE <<1, 1>>

\* C18: the event demand multiplier of calculate_optimal_pricing is
\* 1.25 + 0.1 x h with h > 0 high-impact events, 1.10 + 0.05 x m with no
\* high-impact and m > 0 medium-impact events, and 1.0 with neither; the
\* recommended_price is computed with it.
DemandGrowsWithEvents ==
    Calculated
    => /\ Reduce(demand_multiplier(CalculateEvents)) = Reduce(GrowingMultiplier(CalculateEvents))
       /\ response.result.recommended_price
            = PriceFrom(GrowingMultiplier(CalculateEvents),
                        dow_multipliers(weekday(request.date)),
                        _get_seasonal_multiplier(request.date, request.location))

\* the name of the weekday of a date; 5 January 2026 is a Monday
WeekdayName(date) ==
    <<"Monday", "Tuesday", "Wednesday", "Thursday", "Friday", "Saturday", "Sunday">>
        [((toordinal(date) - toordinal(Day(2026, 1, 5))) % 7) + 1]

WeekdayFactor(name) ==
    CASE name = "Monday" -> <<95, 100>>
      [] name = "Tuesday" -> <<98, 100>>
      [] name = "Wednesday" -> <<100, 100>>
      [] name = "Thursday" -> <<105, 100>>
      [] name = "Friday" -> <<120, 100>>
      [] name = "Saturday" -> <<125, 100>>
      [] name = "Sunday" -> <<110, 100>>

\* C19: calculate_optimal_pricing multiplies the price by the weekday factor
\* of the target date (Monday 0.95, Tuesday 0.98, Wednesday 1.00, Thursday
\* 1.05, Friday 1.20, Saturday 1.25, Sunday 1.10), one factor for every date.
WeekdayFactorApplied ==
    Calculated
    => /\ Reduce(dow_multipliers(weekday(request.date)))
            = Reduce(WeekdayFactor(WeekdayName(request.date)))
       /\ response.result.recommended_price
            = PriceFrom(demand_multiplier(CalculateEvents),
                        WeekdayFactor(WeekdayName(request.date)),
                        _get_seasonal_multiplier(request.date, request.location))

\* C19 case: a Saturday, priced within the price limits with the factor 1.25
SaturdayPriced ==
    /\ Calculated
    /\ WeekdayName(request.date) = "Saturday"
    /\ request.competitors # <<>>
    /\ 100 * CalculateConfig.minPrice < response.result.recommended_price
    /\ response.result.recommended_price < 100 * CalculateConfig.maxPrice
    /\ response.result.recommended_price
         = PriceFrom(demand_multiplier(CalculateEvents), <<125, 100>>,
                     _get_seasonal_multiplier(request.date, request.location))

\* the seasonal multiplier of a month, the same for every location
MonthMultiplier(month) ==
    IF month \in {6, 7, 8} THEN <<115, 100>>
    ELSE IF month = 12 THEN <<120, 100>>
    ELSE IF month \in {1, 2} THEN <<90, 100>>
    ELSE <<1, 1>>

\* C20: the seasonal multiplier depends only on the month of the target
\* date, for every location: 1.15 in months 6, 7, 8; 1.20 in month 12; 0.90
\* in months 1 and 2; 1.0 in every other month; the recommended_price is
\* computed with it.
SeasonByMonthOnly ==
    Calculated
    => /\ Reduce(_get_seasonal_multiplier(request.date, request.location))
            = Reduce(MonthMultiplier(request.date.month))
       /\ response.result.recommended_price
            = PriceFrom(demand_multiplier(CalculateEvents),
                        dow_multipliers(weekday(request.date)),
                        MonthMultiplier(request.date.month))

\* the number of days between the moment of the call and the target date
CalculateLeadTime == DaysUntil(request.date, request.now)

\* the statistics of the competitor prices of the call
CalculateStats == competitor_stats(competitor_prices(request.competitors))

\* the recommended_price of the call for a base price (in dollars) and a
\* lead-time multiplier, everything else as the call computes it
PriceOf(base, lead) ==
    recommended_price(
        CalculateConfig,
        calculated_price(base,
                         demand_multiplier(CalculateEvents),
                         dow_multipliers(weekday(request.date)),
                         _get_seasonal_multiplier(request.date, request.location),
                         lead))

\* the lead-time multiplier of a number of days
DaysMultiplier(days) ==
    IF days \in 0..3 THEN <<115, 100>>
    ELSE IF days > 60 THEN <<95, 100>>
    ELSE <<1, 1>>

\* C21: the lead-time multiplier depends only on the number of days between
\* now and the target date (1.15 for 0 to 3 days, 0.95 for more than 60 days,
\* 1.0 otherwise), not on the events; the recommended_price is computed with
\* it.
LeadTimeByDaysOnly ==
    Calculated
    => /\ Reduce(lead_time_multiplier(CalculateLeadTime, CalculateEvents))
            = Reduce(DaysMultiplier(CalculateLeadTime))
       /\ response.result.recommended_price
            = PriceOf(base_price(CalculateStats), DaysMultiplier(CalculateLeadTime))

\* the competitor prices of the call that survive the filter, ascending
SurvivingPrices == sorted(competitor_prices(request.competitors))

\* the p-th percentile (nearest rank) of an ascending, non-empty list
Percentile(prices, p) == prices[Max(1, (p * Len(prices) + 99) \div 100)]

\* the base price by star rating, in dollars
StarBase(prices, stars) ==
    IF stars >= 4 THEN RInt(Percentile(prices, 75))
    ELSE IF stars = 3 THEN RInt(Percentile(prices, 50))
    ELSE RInt(Percentile(prices, 25))

\* C22: when a competitor price survives the filter, the base price of
\* calculate_optimal_pricing is the 75th percentile of the competitor prices
\* for starRating >= 4, their median for starRating = 3 and their 25th
\* percentile for starRating <= 2; the recommended_price is computed from it.
BaseByStarRating ==
    (/\ Calculated
     /\ SurvivingPrices # <<>>
     /\ "starRating" \in DOMAIN request.hotel_config)
    => /\ Reduce(base_price(CalculateStats))
            = Reduce(StarBase(SurvivingPrices, request.hotel_config.starRating))
       /\ response.result.recommended_price
            = PriceOf(StarBase(SurvivingPrices, request.hotel_config.starRating),
                      lead_time_multiplier(CalculateLeadTime, CalculateEvents))

\* the competitor observations with a price over 50
IsObservation(competitor) == competitor.price > 50

\* the result of the call, had it been made without the observations of 50
\* and less
ResultWithoutNoise ==
    calculate_optimal_pricing(request.location, request.date, request.hotel_config,
                              SelectSeq(request.competitors, IsObservation),
                              request.market_intel, request.now)

\* C23: competitor observations with a price of 50 or less are excluded from
\* every competitor statistic of calculate_optimal_pricing: with or without
\* them the call returns the same recommended_price, competitor count,
\* average price and price range, and quotes the same competitor clause in
\* the reasoning; it does not raise.
NoiseExcludedEverywhere ==
    Calculated
    => /\ response.result.recommended_price = ResultWithoutNoise.recommended_price
       /\ response.result.competitor_analysis = ResultWithoutNoise.competitor_analysis
       /\ response.result.reasoning = ResultWithoutNoise.reasoning

\* the occupancy factor of the elasticity bands for a price ratio
ElasticityBand(ratio) ==
    IF RLess(<<130, 100>>, ratio) THEN <<75, 100>>
    ELSE IF RLess(<<115, 100>>, ratio) THEN <<85, 100>>
    ELSE IF RLess(<<105, 100>>, ratio) THEN <<92, 100>>
    ELSE IF RLess(ratio, <<85, 100>>) THEN <<120, 100>>
    ELSE IF RLess(ratio, <<95, 100>>) THEN <<110, 100>>
    ELSE <<1, 1>>

\* the occupancy of the call before the price adjustment: the base
\* occupancy and the boost of the events, at most 95
BoostedOccupancy ==
    Min(OccupancyCeiling, CalculateConfig.baseOccupancy + occupancy_boost(CalculateEvents))

\* C24: with competitor data present, calculate_optimal_pricing multiplies
\* the occupancy by the factor of the band of price_ratio = recommended_price
\* / average competitor price (over 1.30: 0.75; over 1.15: 0.85; over 1.05:
\* 0.92; under 0.85: 1.20; under 0.95: 1.10; otherwise 1), the result kept
\* within the occupancy limits 30 and 95.
OccupancyByBand ==
    (/\ Calculated
     /\ CalculateStats.present
     /\ CalculateStats.avg[1] # 0)
    => response.result.projected_occupancy
         = RRound(RMin(RInt(OccupancyCeiling),
                       RMax(RInt(OccupancyFloor),
                            RMul(RInt(BoostedOccupancy),
                                 ElasticityBand(RDiv(<<response.result.recommended_price, 100>>,
                                                     CalculateStats.avg))))), 10)

\* the position of a price (in cents) against the competitor average
PositionAgainst(price_cents, avg) ==
    IF RLess(RMul(avg, <<11, 10>>), <<price_cents, 100>>) THEN "premium"
    ELSE IF RLess(<<price_cents, 100>>, RMul(avg, <<9, 10>>)) THEN "value"
    ELSE "competitive"

\* C25: the market_position of calculate_optimal_pricing is "premium" when
\* recommended_price > 1.1 x the competitor average, "value" when
\* recommended_price < 0.9 x the competitor average, "competitive" otherwise,
\* and "market_rate" when there is no competitor average.
PositionFollowsPrice ==
    Calculated
    => response.result.market_position
         = IF CalculateStats.present
           THEN PositionAgainst(response.result.recommended_price, CalculateStats.avg)
           ELSE "market_rate"

\* the place of a clause in the order of the reasoning: competitor clause 1,
\* demand clause 2, weekend clause 3, season clause 4; 0 for the generic
\* sentence
ClauseOrder(clause) ==
    CASE clause.clause = "Positioned competitively vs competitors" -> 1
      [] clause.clause \in {"High-impact events driving premium pricing",
                            "Market events supporting rate increase"} -> 2
      [] clause.clause = "Weekend premium applied" -> 3
      [] clause.clause \in {"Peak season pricing in effect",
                            "Off-season discount applied"} -> 4
      [] clause.clause = "Based on market analysis and demand patterns" -> 0

\* the places of the clauses that apply to the call
ApplyingClauses ==
    (IF request.competitors # <<>> THEN {1} ELSE {})
    \cup (IF RLess(<<105, 100>>, demand_multiplier(CalculateEvents)) THEN {2} ELSE {})
    \cup (IF WeekdayName(request.date) \in {"Friday", "Saturday", "Sunday"} THEN {3} ELSE {})
    \cup (IF \/ RLess(<<110, 100>>, _get_seasonal_multiplier(request.date, request.location))
             \/ RLess(_get_seasonal_multiplier(request.date, request.location), <<95, 100>>)
          THEN {4} ELSE {})

\* C26: the reasoning of a result is the clauses that apply, in the order
\* competitor clause, demand clause, weekend clause, season clause, each at
\* most once; the generic sentence is the reasoning if and only if no clause
\* applies; the reasoning is never empty.
ReasoningInOrder ==
    Calculated
    => /\ response.result.reasoning # <<>>
       /\ \A i, j \in 1..Len(response.result.reasoning) :
             i < j => ClauseOrder(response.result.reasoning[i])
                        < ClauseOrder(response.result.reasoning[j])
       /\ {ClauseOrder(response.result.reasoning[i]) :
              i \in 1..Len(response.result.reasoning)}
            = IF ApplyingClauses = {} THEN {0} ELSE ApplyingClauses

\* C26 case: a Saturday in the peak season with a competitor and a
\* high-impact event: the four clauses, in order
FourClauses ==
    /\ Calculated
    /\ Len(response.result.reasoning) = 4
    /\ response.result.reasoning[1].count = Len(request.competitors)
    /\ response.result.reasoning[2].clause = "High-impact events driving premium pricing"
    /\ response.result.reasoning[3].clause = "Weekend premium applied"
    /\ response.result.reasoning[4].clause = "Peak season pricing in effect"

\* POST /api/price-recommendation has been answered with the parsed answer
\* of the AI
ParsedAnswered ==
    /\ response.op = "get_price_recommendation"
    /\ ~AiFailed(request.world.ai)
    /\ response.success

\* C27: on the successful-parse path every event of the Tavily search is in
\* the market_events of the returned result, with the source "tavily",
\* whether or not enhance_competitor_data or enhance_market_events ran.
TavilyEventsKept ==
    ParsedAnswered
    => \A i \in 1..Len(request.world.tavily_events) :
          \E j \in 1..Len(response.data.market_events) :
             /\ response.data.market_events[j].name = request.world.tavily_events[i].name
             /\ "source" \in DOMAIN response.data.market_events[j]
             /\ response.data.market_events[j].source = "tavily"

\* the events the queries of the call produced, in the order of the queries
ProducedEvents ==
    IF request.api_key /\ ValidDate(request.date)
    THEN all_events(request.outcomes) ELSE <<>>

\* the produced events without those whose lowercased name came earlier
FirstOccurrences ==
    SelectSeq([i \in 1..Len(ProducedEvents) |->
                  [event |-> ProducedEvents[i],
                   first |-> \A j \in 1..(i - 1) :
                               lower(ProducedEvents[j].name)
                                   # lower(ProducedEvents[i].name)]],
              LAMBDA e : e.first)

\* C28: search_events_with_tavily returns at most 5 events with pairwise
\* distinct lowercased names, the first occurrences in the order the queries
\* produced them; a query that fails does not stop the later queries; without
\* an API key it returns the empty list and posts nothing.
TavilyKeepsFirstOccurrences ==
    response.op = "search_events_with_tavily" =>
        /\ Len(response.events) <= 5
        /\ \A i, j \in 1..Len(response.events) :
               i # j => lower(response.events[i].name) # lower(response.events[j].name)
        /\ Len(response.events) = Min(5, Len(FirstOccurrences))
        /\ \A i \in 1..Len(response.events) :
               response.events[i] = FirstOccurrences[i].event
        /\ (request.api_key /\ ValidDate(request.date)) => response.searches = 4
        /\ ~request.api_key => response.events = <<>> /\ response.searches = 0

\* shared tokens / all distinct tokens >= 0.6, for two normalized names
OverlapReached(name1, name2) ==
    /\ name1 \o name2 # <<>>
    /\ 5 * Cardinality({name1[i] : i \in 1..Len(name1)}
                        \cap {name2[i] : i \in 1..Len(name2)})
         >= 3 * Cardinality({name1[i] : i \in 1..Len(name1)}
                             \cup {name2[i] : i \in 1..Len(name2)})

\* C29: _deduplicate_and_enhance_competitors returns at most 15 competitors in
\* descending order of price, each of them one of the list it was given, the
\* first of the list among them; and two normalized names are similar exactly
\* when they share 60% or more of their tokens.
DuplicatesFromSixtyPercent ==
    /\ response.op = "_deduplicate_and_enhance_competitors" =>
           /\ response.raised = ""
           /\ Len(response.competitors) <= 15
           /\ \A i \in 1..(Len(response.competitors) - 1) :
                  response.competitors[i].price >= response.competitors[i + 1].price
           /\ \A i \in 1..Len(response.competitors) :
                  \E j \in 1..Len(request.competitors) :
                      response.competitors[i] = request.competitors[j]
           /\ request.competitors # <<>> =>
                  \E i \in 1..Len(response.competitors) :
                      response.competitors[i] = request.competitors[1]
    /\ response.op = "_names_are_similar" =>
           (response.similar <=> OverlapReached(request.name1, request.name2))

\* the average of the two prices that a rank reads through the list indices
\* rank - 2 and rank - 1, constrained and rounded as an override price
BetweenTwoPrice(rank) ==
    RRound(ClampTarget(OverrideMinPrice, OverrideMaxPrice,
                       <<PyIndex(OverridePrices, rank - 2)
                         + PyIndex(OverridePrices, rank - 1), 2>>), 100)

\* C30: for every integer desiredRank and every non-empty competitor list with
\* positive prices, price_override answers success with an override price
\* within the price limits, never with an internal error, and a desiredRank
\* below 1 is not priced as a rank between two competitors.
OverrideForEveryRank ==
    (/\ response.op = "price_override"
     /\ OverridePrices # <<>>
     /\ OverrideMinPrice <= OverrideMaxPrice)
    => /\ response.status # 500
       /\ response.success
       /\ 100 * OverrideMinPrice <= response.override_price
       /\ response.override_price <= 100 * OverrideMaxPrice
       /\ (/\ OverrideRank < 1
           /\ IndexOk(OverridePrices, OverrideRank - 2)
           /\ IndexOk(OverridePrices, OverrideRank - 1))
          => response.override_price # BetweenTwoPrice(OverrideRank)

====
